---- MODULE Spec2Model ----
(***************************************************************************)
(* Model of the ui-explorer crawl engine (src/src/core/Explorer.ts).      *)
(*                                                                         *)
(* The Explorer drives one browser page through a frontier of Tasks       *)
(* {url, path, depth, viewport}.  The target application is modelled as a *)
(* small labelled transition system; browser calls can fail.              *)
(***************************************************************************)
EXTENDS Naturals, Integers, Sequences, FiniteSets, TLC

(***************************************************************************)
(* Bounds of the model.                                                    *)
(***************************************************************************)
MaxDepthCfg == 2      \* configured exploration.maxDepth ranges over 0..MaxDepthCfg
MaxStatesCfg == 3     \* configured exploration.maxStates ranges over 0..MaxStatesCfg
MaxActionsCfg == 2    \* configured exploration.maxActionsPerState ranges over 0..MaxActionsCfg
MaxFaults == 2        \* number of injected browser-call failures per run

(***************************************************************************)
(* Program constants.                                                      *)
(***************************************************************************)
DefaultMaxDepth == 10
DefaultMaxStates == 500
DefaultMaxActions == 50

(***************************************************************************)
(* Selectors are sequences of characters so that String.includes can be   *)
(* computed.                                                               *)
(***************************************************************************)
SelA == <<"a">>
SelB == <<"b">>
SelAB == <<"a", "b">>

\* String.prototype.includes: sub occurs in s as a contiguous substring.
Includes(s, sub) ==
    \E i \in 0..Len(s) :
        /\ i + Len(sub) <= Len(s)
        /\ \A k \in 1..Len(sub) : s[i + k] = sub[k]

NoPage == 0
NoId == <<0, "none", 0>>

(***************************************************************************)
(* Target applications.  st: application states; url: the URL shown in    *)
(* each state; landing: the state a navigation to a URL ends in; acts:    *)
(* the interactive elements of a state in prioritized order; delta: the   *)
(* state an interaction leads to; fresh: every observation of the         *)
(* application has an identity never seen before; logs: the states that   *)
(* write an error to the console when they are shown; layout: what the    *)
(* page validators see of each state.                                      *)
(***************************************************************************)

\* What the page validators see of a state.  minWidth: the width in px the
\* content needs (the document is as wide as the viewport if that is more);
\* elems: the boxes of the interactive elements; truncated: the number of
\* elements whose text is cut off with an ellipsis; a11y: the issues the
\* accessibility validator reports.
Fluid == [minWidth |-> 0, elems |-> <<>>, truncated |-> 0, a11y |-> <<>>]

\* A state whose content is 200px wider than the widest viewport.
Wide == [Fluid EXCEPT !.minWidth = 1480]

Box(left, top, width, height) ==
    [left |-> left, top |-> top, width |-> width, height |-> height]

\* Two pages whose buttons navigate to each other; distinct selectors.
TargetTwoPages ==
    [ name |-> "twoPages", start |-> "/a", fresh |-> FALSE,
      logs |-> {},
      layout |-> << Wide, Wide >>,
      url |-> <<"/a", "/b">>,
      landing |-> [u \in {"/a", "/b"} |-> IF u = "/a" THEN 1 ELSE 2],
      acts |-> << <<SelB, SelAB>>, <<SelA>> >>,
      delta |-> << [s \in {SelB, SelAB} |-> IF s = SelB THEN 2 ELSE 1],
                   [s \in {SelA} |-> 1] >> ]

\* Two pages whose buttons navigate to each other; the same selector on both.
TargetSameSelector ==
    [ name |-> "sameSelector", start |-> "/a", fresh |-> FALSE,
      logs |-> {},
      layout |-> << Fluid, Fluid >>,
      url |-> <<"/a", "/b">>,
      landing |-> [u \in {"/a", "/b"} |-> IF u = "/a" THEN 1 ELSE 2],
      acts |-> << <<SelA>>, <<SelA>> >>,
      delta |-> << [s \in {SelA} |-> 2], [s \in {SelA} |-> 1] >> ]

\* Single-page application: three in-page states behind one URL, in a cycle.
TargetSpa ==
    [ name |-> "spa", start |-> "/a", fresh |-> FALSE,
      logs |-> {},
      layout |-> << [Fluid EXCEPT !.minWidth = 385], [Fluid EXCEPT !.minWidth = 600],
                    [Fluid EXCEPT !.a11y = << [type |-> "accessibility",
                                               rule |-> "color-contrast",
                                               severity |-> "serious",
                                               error |-> 0] >>] >>,
      url |-> <<"/a", "/a", "/a">>,
      landing |-> [u \in {"/a"} |-> 1],
      acts |-> << <<SelA>>, <<SelB>>, <<SelAB>> >>,
      delta |-> << [s \in {SelA} |-> 2], [s \in {SelB} |-> 3],
                   [s \in {SelAB} |-> 1] >> ]

\* A link to a second URL, where a button opens an in-page dialog that
\* leads back to the start: a cycle of length three.
TargetDialog ==
    [ name |-> "dialog", start |-> "/a", fresh |-> FALSE,
      logs |-> {},
      layout |-> << Fluid,
                    [Fluid EXCEPT !.truncated = 2,
                                  !.elems = << Box(100, 100, 30, 30), Box(0, 0, 0, 0),
                                               Box(1400, 50, 100, 50),
                                               Box(10, 2500, 100, 50) >>],
                    Fluid >>,
      url |-> <<"/a", "/b", "/b">>,
      landing |-> [u \in {"/a", "/b"} |-> IF u = "/a" THEN 1 ELSE 2],
      acts |-> << <<SelA>>, <<SelB>>, <<SelAB>> >>,
      delta |-> << [s \in {SelA} |-> 2], [s \in {SelB} |-> 3],
                   [s \in {SelAB} |-> 1] >> ]

\* One page with two buttons; every observation yields a fresh identity.
TargetFresh ==
    [ name |-> "fresh", start |-> "/a", fresh |-> TRUE,
      logs |-> {},
      layout |-> << Fluid >>,
      url |-> <<"/a">>,
      landing |-> [u \in {"/a"} |-> 1],
      acts |-> << <<SelA, SelB>> >>,
      delta |-> << [s \in {SelA, SelB} |-> 1] >> ]

\* Two pages as in TargetTwoPages; the first one logs an error on the
\* console whenever it is shown.
TargetConsole ==
    [ name |-> "console", start |-> "/a", fresh |-> FALSE,
      logs |-> {1},
      layout |-> << Wide, Wide >>,
      url |-> <<"/a", "/b">>,
      landing |-> [u \in {"/a", "/b"} |-> IF u = "/a" THEN 1 ELSE 2],
      acts |-> << <<SelB>>, <<SelA>> >>,
      delta |-> << [s \in {SelB} |-> 2], [s \in {SelA} |-> 1] >> ]

Targets == {TargetTwoPages, TargetSameSelector, TargetSpa, TargetDialog, TargetFresh,
            TargetConsole}

States(t) == 1..Len(t.url)

\* The selector is present (visible) in application state p.
Present(t, p, sel) == p \in States(t) /\ sel \in DOMAIN t.delta[p]


(***************************************************************************)
(* Action schemas (configuration).  A schema has a matcher, optional      *)
(* setup steps and expectations.                                           *)
(***************************************************************************)

\* ActionMatcher.custom left out; otherwise the predicate is given by the
\* actions it returns true for.
NoCustom == [given |-> FALSE, accepts |-> {}]

SchemaA ==
    [ match |-> [selector |-> SelA, text |-> <<>>, role |-> "", context |-> <<>>,
                 custom |-> NoCustom],
      hasSetup |-> TRUE,
      setup |-> << [optional |-> TRUE], [optional |-> FALSE] >>,
      expects |-> << [kind |-> "database"],
                     [kind |-> "ui", visible |-> << SelB >>, hidden |-> <<>>,
                      url |-> <<>>],
                     [kind |-> "api"] >> ]

\* Matches links, on pages whose URL contains "/b".
SchemaCtx ==
    [ match |-> [selector |-> <<>>, text |-> <<>>, role |-> "link",
                 context |-> <<"/", "b">>, custom |-> NoCustom],
      hasSetup |-> FALSE,
      setup |-> <<>>,
      expects |-> << [kind |-> "api"],
                     [kind |-> "ui", visible |-> <<>>, hidden |-> <<>>, url |-> <<>>] >> ]

\* Matches elements whose selector contains "b" and whose label contains
\* "dd", whatever the case; its custom predicate accepts links only.
SchemaText ==
    [ match |-> [selector |-> SelB, text |-> <<"d", "d">>, role |-> "",
                 context |-> <<>>, custom |-> [given |-> TRUE, accepts |-> {SelB}]],
      hasSetup |-> FALSE,
      setup |-> <<>>,
      expects |-> << [kind |-> "ui", visible |-> << SelA >>, hidden |-> << SelB >>,
                      url |-> <<"/", "a">>],
                     [kind |-> "service", adapter |-> "stripe"] >> ]

SchemaConfigs == { <<>>, <<SchemaCtx, SchemaText, SchemaA>> }

\* What action discovery reports of an element besides its selector.
ActionLabel(sel) ==
    IF sel = SelA THEN <<"A", "d", "d">>
    ELSE IF sel = SelB THEN <<"B", "a", "c", "k">>
    ELSE <<"A", "D", "D">>

ActionRole(sel) == IF sel = SelB THEN "link" ELSE "button"

\* The characters of a URL.
UrlChars(u) == IF u = "/a" THEN <<"/", "a">> ELSE <<"/", "b">>

\* Case folding of the letters in use.
LowerChar(ch) ==
    IF ch = "A" THEN "a" ELSE IF ch = "B" THEN "b" ELSE IF ch = "D" THEN "d" ELSE ch

Lower(str) == [i \in 1..Len(str) |-> LowerChar(str[i])]

\* RegExp(pattern, flags).test(text) for a pattern without metacharacters.
RegexTest(pattern, ignoreCase, text) ==
    IF ignoreCase THEN Includes(Lower(text), Lower(pattern))
    ELSE Includes(text, pattern)

Undef == 0 - 1

ViewportConfigs == { <<"desktop">>, <<"mobile", "desktop">> }

\* config.adapters: the names of the configured backend adapters.
AdapterConfigs == { <<>>, <<"supabase">> }

\* The configurations explored: the user leaves the limits and the viewports
\* at their most permissive values, except for at most one of them; action
\* schemas are configured next to the default values, with or without the
\* adapter.
Deviations(c) ==
    (IF c.maxDepth = Undef THEN 0 ELSE 1)
    + (IF c.maxStates = MaxStatesCfg THEN 0 ELSE 1)
    + (IF c.maxActionsPerState = MaxActionsCfg THEN 0 ELSE 1)
    + (IF c.viewports = <<"desktop">> THEN 0 ELSE 1)
    + (IF c.adapters = <<>> THEN 0 ELSE 1)
    + (IF c.console = "unset" THEN 0 ELSE 1)

UserConfigs ==
    { c \in [ maxDepth : {Undef} \cup (0..MaxDepthCfg),
              maxStates : 0..MaxStatesCfg,
              maxActionsPerState : 0..MaxActionsCfg,
              viewports : ViewportConfigs,
              adapters : AdapterConfigs,
              console : {"unset", "off"},
              actionSchemas : SchemaConfigs ] :
          /\ Deviations(c) <= 1
          /\ c.actionSchemas # <<>> => (Deviations(c) = 0 \/ c.adapters # <<>>) }

\* Explorer.mergeConfig: a field the user left undefined takes the default.
mergeConfig(c) ==
    [ c EXCEPT !.maxDepth = IF c.maxDepth = Undef THEN DefaultMaxDepth ELSE c.maxDepth,
               !.console = IF c.console = "unset" THEN "on" ELSE c.console ]

VARIABLES
    config,         \* this.config after mergeConfig
    target,         \* the application under exploration
    visited,        \* this.visited: set of state ids
    queue,          \* this.queue: frontier of Tasks
    graph,          \* this.graph: [states: id -> node, order: the ids in the order
                    \* of insertion (a Map), startStates: seq of ids]
    pc,             \* position of the control flow of explore()
    task,           \* the Task being processed
    page,           \* application state shown by the open page (NoPage: none)
    pageOpen,       \* a page is open
    state,          \* exploreTask's captured state id (NoId: not captured)
    actions,        \* exploreTask's actionsToExplore
    idx,            \* index in actions of the current / last candidate action
    schema,         \* exploreAction's matched schema (index, 0: none)
    stepIdx,        \* executeSetup's position in the setup steps
    toState,        \* exploreAction's post-action state id
    verifications,  \* exploreAction's verification results
    tlog,           \* what happened to the current Task, in order
    alog,           \* what happened to the current candidate action, in order
    loopExit,       \* how the main loop ended
    nonce,          \* number of observations made (fresh identities)
    xlog,           \* what explore() did outside the Tasks, in order
    faults,         \* browser-call failures still to be injected
    consoleErrors,  \* this.consoleErrors: the console errors not yet reported
    captured,       \* number of console errors captured so far
    result,         \* what explore() resolves with
    browser,        \* this.browser: "null" or the launched browser, "open"
    context,        \* this.context: "null" or the browser context, "open"
    enabled,        \* BrokenLinksValidator: config.enabled
    links,          \* validate's linksToCheck
    lqueue,         \* checkLinksWithConcurrency: the shared queue
    workers,        \* checkLinksWithConcurrency: the workers
    results,        \* checkLinksWithConcurrency: the results, as pushed
    checkedUrls,    \* this.checkedUrls: href -> cached result
    linkIssues,     \* the issues validate() returns
    sent,           \* href -> requests sent for it since the last clearCache()
    lpc             \* position of the control flow of validate()

\* The state of the link checker.
LinkVars == << enabled, links, lqueue, workers, results, checkedUrls, linkIssues,
              sent, lpc >>

\* The state of the crawl.
ExplorerVars == << config, target, visited, queue, graph, pc, task, page, pageOpen,
                   state, actions, idx, schema, stepIdx, toState, verifications,
                   tlog, alog, loopExit, nonce, xlog, faults, consoleErrors,
                   captured, result, browser, context >>

ConsoleVars == << consoleErrors, captured >>

vars == << ExplorerVars, LinkVars >>

NoTask == [url |-> "", path |-> <<>>, depth |-> 0, viewport |-> "none", post |-> NoId]

\* `x || d` on a number: 0 is falsy.
OrDefault(x, d) == IF x = 0 THEN d ELSE x

\* The limits the main loop compares against.
EffMaxDepth == OrDefault(config.maxDepth, DefaultMaxDepth)
EffMaxStates == OrDefault(config.maxStates, DefaultMaxStates)
EffMaxActions == OrDefault(config.maxActionsPerState, DefaultMaxActions)

\* explore() has not resolved.
Unresolved ==
    [ summary |-> [statesExplored |-> Undef, actionsPerformed |-> Undef,
                   issuesFound |-> Undef, verificationsPassed |-> Undef,
                   verificationsFailed |-> Undef],
      issues |-> <<>>, verifications |-> <<>> ]

\* No link validation is under way.
LinkIdle ==
    /\ enabled = FALSE
    /\ links = <<>>
    /\ lqueue = <<>>
    /\ workers = <<>>
    /\ results = <<>>
    /\ checkedUrls = <<>>
    /\ linkIssues = <<>>
    /\ sent = <<>>
    /\ lpc = "off"

Init ==
    /\ target \in Targets
    /\ \E c \in UserConfigs :
         /\ target.fresh => c.maxStates > 0
         /\ config = mergeConfig(c)
    /\ visited = {}
    /\ queue = <<>>
    /\ graph = [states |-> <<>>, order |-> <<>>, startStates |-> <<>>]
    /\ pc = "init"
    /\ task = NoTask
    /\ page = NoPage
    /\ pageOpen = FALSE
    /\ state = NoId
    /\ actions = <<>>
    /\ idx = 0
    /\ schema = 0
    /\ stepIdx = 0
    /\ toState = NoId
    /\ verifications = <<>>
    /\ tlog = <<>>
    /\ alog = <<>>
    /\ loopExit = "none"
    /\ nonce = 0
    /\ xlog = <<>>
    /\ faults = MaxFaults
    /\ consoleErrors = <<>>
    /\ captured = 0
    /\ result = Unresolved
    /\ browser = "null"
    /\ context = "null"
    /\ LinkIdle


(***************************************************************************)
(* Helpers of the crawl.                                                   *)
(***************************************************************************)

\* StateManager.captureState: the identity of an observation.  It is
\* derived from the page content (URL and interactive elements) and the
\* viewport; a fresh target never shows the same identity twice.
captureState(p, vp, n) == IF target.fresh THEN <<p, vp, n + 1>> ELSE <<p, vp, 0>>

\* Explorer.replayPath: re-execute the path; the first action whose
\* element is not there stops the replay.
RECURSIVE replayPathMut(_, _)
replayPathMut(p, path) ==
    IF path = <<>> THEN p
    ELSE IF Present(target, p, Head(path))
         THEN replayPathMut(target.delta[p][Head(path)], Tail(path))
         ELSE replayPathMut(p, Tail(path))
RECURSIVE replayPath(_, _)
replayPath(p, path) ==
    IF path = <<>> THEN p
    ELSE IF Present(target, p, Head(path))
         THEN replayPath(target.delta[p][Head(path)], Tail(path))
         ELSE p

\* page.goto(url) followed by replayPath(path).
gotoAndReplay(url, path) == replayPath(target.landing[url], path)

\* Explorer.findMatchingSchema, the test of one schema: every matcher field
\* that is given (truthy) must hold of the action and of the page's URL.
SchemaMatches(sc, action, p) ==
    /\ sc.match.selector # <<>> => Includes(action, sc.match.selector)
    /\ sc.match.text # <<>> => RegexTest(sc.match.text, TRUE, ActionLabel(action))
    /\ sc.match.role # "" => ActionRole(action) = sc.match.role
    /\ sc.match.context # <<>> =>
           RegexTest(sc.match.context, FALSE, UrlChars(target.url[p]))

\* Explorer.findMatchingSchema: index of the first schema that matches
\* (0: none).
findMatchingSchemaMut(action, p) ==
    LET hits == { i \in 1..Len(config.actionSchemas) :
                    SchemaMatches(config.actionSchemas[i], action, p) }
    IN  IF hits = {} THEN 0
        ELSE CHOOSE i \in hits : \A j \in hits : i >= j
findMatchingSchema(action, p) ==
    LET hits == { i \in 1..Len(config.actionSchemas) :
                    SchemaMatches(config.actionSchemas[i], action, p) }
    IN  IF hits = {} THEN 0
        ELSE CHOOSE i \in hits : \A j \in hits : i <= j

\* AdapterRegistry.get(name): initialize() registers the configured
\* supabase adapter once it is connected.
Registered(name) == \E i \in 1..Len(config.adapters) : config.adapters[i] = name

\* The result pushed for an API expectation: the check of the network
\* requests is not implemented and always passes.
ApiResultMut == [type |-> "api", passed |-> FALSE]
ApiResult == [type |-> "api", passed |-> TRUE]

\* verifyUiExpectations, the loop over ui.visible: one result per selector.
\* k: the isVisible calls made before; thrown: the calls that throw.  A
\* throwing isVisible is caught and gives passed = false.
RECURSIVE VisibleResults(_, _, _, _)
VisibleResults(sels, p, k, thrown) ==
    IF sels = <<>> THEN <<>>
    ELSE << [type |-> "ui",
             passed |-> IF (k + 1) \in thrown THEN FALSE
                        ELSE Present(target, p, Head(sels))] >>
             \o VisibleResults(Tail(sels), p, k + 1, thrown)

\* verifyUiExpectations, the loop over ui.hidden: a throwing isVisible is
\* caught and gives passed = true.
RECURSIVE HiddenResults(_, _, _, _)
HiddenResults(sels, p, k, thrown) ==
    IF sels = <<>> THEN <<>>
    ELSE << [type |-> "ui",
             passed |-> IF (k + 1) \in thrown THEN TRUE
                        ELSE ~Present(target, p, Head(sels))] >>
             \o HiddenResults(Tail(sels), p, k + 1, thrown)

\* Explorer.verifyUiExpectations: visible, hidden, url; an expectation that
\* gives only text or title yields nothing.
verifyUiExpectations(ui, p, k, thrown) ==
    VisibleResults(ui.visible, p, k, thrown)
        \o HiddenResults(ui.hidden, p, k + Len(ui.visible), thrown)
        \o (IF ui.url = <<>> THEN <<>>
            ELSE << [type |-> "ui",
                     passed |-> RegexTest(ui.url, FALSE, UrlChars(target.url[p]))] >>)

\* The number of isVisible calls the expectations lead to.
RECURSIVE VisibleCalls(_)
VisibleCalls(expects) ==
    IF expects = <<>> THEN 0
    ELSE (IF Head(expects).kind = "ui"
          THEN Len(Head(expects).visible) + Len(Head(expects).hidden)
          ELSE 0) + VisibleCalls(Tail(expects))

\* Explorer.verifyExpectations on the current page.  adapterPassed: what an
\* adapter's verify reports; k, thrown: as above.  A database expectation
\* yields a result only if the supabase adapter is registered, a service
\* expectation only if the adapter it names is.
RECURSIVE verifyExpectations(_, _, _, _, _)
verifyExpectations(expects, p, adapterPassed, k, thrown) ==
    IF expects = <<>> THEN <<>>
    ELSE LET e == Head(expects)
             r == CASE e.kind = "database" ->
                         IF Registered("supabase")
                         THEN << [type |-> "database", passed |-> adapterPassed] >>
                         ELSE <<>>
                    [] e.kind = "ui" -> verifyUiExpectations(e, p, k, thrown)
                    [] e.kind = "api" -> << ApiResult >>
                    [] e.kind = "service" ->
                         IF Registered(e.adapter)
                         THEN << [type |-> "service", passed |-> adapterPassed] >>
                         ELSE <<>>
         IN  r \o verifyExpectations(Tail(expects), p, adapterPassed,
                                     k + VisibleCalls(<< e >>), thrown)

\* The expectations (by position) whose evaluation calls an adapter.
AdapterCalls(expects) ==
    { i \in 1..Len(expects) :
        \/ expects[i].kind = "database" /\ Registered("supabase")
        \/ expects[i].kind = "service" /\ Registered(expects[i].adapter) }

\* Explorer.addStateToGraph: Map.set of a node without transitions; the
\* first node ever added is recorded as a start state.
addStateToGraph(g, id, issues) ==
    LET states == (id :> [issues |-> issues, transitions |-> <<>>]) @@ g.states
    IN  [ states |-> states,
          order |-> IF id \in DOMAIN g.states THEN g.order ELSE Append(g.order, id),
          startStates |-> IF Cardinality(DOMAIN states) = 1
                          THEN Append(g.startStates, id)
                          ELSE g.startStates ]

\* Explorer.addTransitionToGraph: push on the node of fromState, if any.
addTransitionToGraphMut(g, from, to, action, vp, verifs) ==
    LET tr == [fromState |-> from, toState |-> to, action |-> action,
               viewport |-> vp, verifications |-> verifs]
    IN  IF from \in DOMAIN g.states
        THEN [ g EXCEPT !.states[from].transitions = << tr >> ]
        ELSE g
addTransitionToGraph(g, from, to, action, vp, verifs) ==
    LET tr == [fromState |-> from, toState |-> to, action |-> action,
               viewport |-> vp, verifications |-> verifs]
    IN  IF from \in DOMAIN g.states
        THEN [ g EXCEPT !.states[from].transitions = Append(@, tr) ]
        ELSE g

\* The first n elements of a sequence (Array.slice(0, n)).
Slice(seq, n) == SubSeq(seq, 1, IF n < Len(seq) THEN n ELSE Len(seq))

\* queue.shift(): what stays in the queue.
ShiftMut(q) == q
Shift(q) == Tail(q)

\* queue.push(task): the Task joins the queue at its end.
EnqueueMut(q, t) == << t >> \o q
Enqueue(q, t) == Append(q, t)

\* The loop's limit checks.
TooDeep(t) == t.depth > EffMaxDepth
CapReachedMut == Cardinality(visited) > EffMaxStates
CapReached == Cardinality(visited) >= EffMaxStates

\* exploreTask's dedup check: `this.visited.has(state.id)`.
AlreadyVisitedMut(id) == FALSE
AlreadyVisited(id) == id \in visited

\* exploreAction's enqueue condition: `!this.visited.has(toState.id)`.
NotYetVisitedMut(id) == TRUE
NotYetVisited(id) == id \notin visited

Fail == faults > 0

\* The context's 'console' handler: the state the page has come to show
\* writes its error, which is pushed on consoleErrors.
LogConsole(p) ==
    IF p \in target.logs
    THEN /\ consoleErrors' = Append(consoleErrors, captured + 1)
         /\ captured' = captured + 1
    ELSE UNCHANGED << consoleErrors, captured >>

\* An Issue; error: the console error it reports (0: none).
Issue(type, rule, severity) ==
    [type |-> type, rule |-> rule, severity |-> severity, error |-> 0]

\* DEFAULT_VIEWPORTS: the size a Task's page is given.
ViewportSize(vp) ==
    IF vp = "mobile" THEN [width |-> 375, height |-> 667]
    ELSE IF vp = "tablet" THEN [width |-> 768, height |-> 1024]
    ELSE [width |-> 1280, height |-> 720]

\* Explorer.runValidators, the accessibility part: the issues the
\* accessibility validator returns are taken over as they are.
AccessibilityIssues(p) == target.layout[p].a11y

\* ResponsiveValidator.checkHorizontalOverflow: one issue if the document is
\* more than 10px wider than the viewport.
checkHorizontalOverflow(p, vp) ==
    LET vw == ViewportSize(vp).width
        maxWidth == IF target.layout[p].minWidth > vw THEN target.layout[p].minWidth
                    ELSE vw
    IN  IF maxWidth > vw + 10
        THEN << Issue("responsive", "no-horizontal-scroll", "serious") >>
        ELSE <<>>

\* ResponsiveValidator.checkTouchTargets: one issue per interactive element
\* that is shown and smaller than 44px in width or height.
RECURSIVE checkTouchTargets(_)
checkTouchTargets(elems) ==
    IF elems = <<>> THEN <<>>
    ELSE LET e == Head(elems)
         IN  (IF e.width = 0 \/ e.height = 0 THEN <<>>
              ELSE IF e.width < 44 \/ e.height < 44
              THEN << Issue("responsive", "touch-target-size", "moderate") >>
              ELSE <<>>)
                 \o checkTouchTargets(Tail(elems))

\* ResponsiveValidator.checkTextTruncation: one issue for all the elements
\* with truncated text.
checkTextTruncation(p) ==
    IF target.layout[p].truncated > 0
    THEN << Issue("responsive", "text-truncation", "minor") >>
    ELSE <<>>

\* ResponsiveValidator.checkOutOfBounds, the page's part: why a shown
\* interactive element counts as outside the viewport ("": it does not).
OutOfBoundsReason(e, size) ==
    IF e.left + e.width < 0 THEN "left of viewport"
    ELSE IF e.left > size.width THEN "right of viewport"
    ELSE IF e.top + e.height < 0 THEN "above viewport"
    ELSE IF e.top > size.height * 3 THEN "far below fold"
    ELSE ""

\* The reasons of the elements outside the viewport, in document order.
RECURSIVE OutOfBoundsReasons(_, _)
OutOfBoundsReasons(elems, size) ==
    IF elems = <<>> THEN <<>>
    ELSE LET e == Head(elems)
             reason == IF e.width = 0 \/ e.height = 0 THEN ""
                       ELSE OutOfBoundsReason(e, size)
         IN  (IF reason = "" THEN <<>> ELSE << reason >>)
                 \o OutOfBoundsReasons(Tail(elems), size)

\* ResponsiveValidator.checkOutOfBounds: one issue per element outside the
\* viewport, of the first ten; serious unless it is only far below the fold.
checkOutOfBounds(p, vp) ==
    LET reasons == Slice(OutOfBoundsReasons(target.layout[p].elems, ViewportSize(vp)), 10)
    IN  [ i \in 1..Len(reasons) |->
            Issue("responsive", "element-out-of-bounds",
                  IF reasons[i] = "far below fold" THEN "minor" ELSE "serious") ]

\* ResponsiveValidator.validate: overflow, touch targets (mobile only),
\* truncation, elements out of bounds, in that order.
ResponsiveIssues(p, vp) ==
    checkHorizontalOverflow(p, vp)
        \o (IF vp = "mobile" THEN checkTouchTargets(target.layout[p].elems) ELSE <<>>)
        \o checkTextTruncation(p)
        \o checkOutOfBounds(p, vp)

\* Explorer.runValidators, the console part: the buffered errors become
\* issues if the console validator is enabled.
ConsoleIssues(buf) ==
    IF config.console = "on" /\ Len(buf) > 0
    THEN [i \in 1..Len(buf) |->
            [type |-> "console", rule |-> "no-console-errors",
             severity |-> "moderate", error |-> buf[i]]]
    ELSE <<>>

\* Explorer.runValidators: the issues of the accessibility validator, of
\* the responsive validator and of the console, in that order.
runValidators(p, vp, buf) ==
    AccessibilityIssues(p) \o ResponsiveIssues(p, vp) \o ConsoleIssues(buf)

\* Explorer.runValidators, the console part: what stays in the buffer.
DrainedBuffer(buf) ==
    IF config.console = "on" /\ Len(buf) > 0 THEN <<>> ELSE buf

TaskVars == << task, state, actions, idx, tlog >>
ActionVars == << schema, stepIdx, toState, verifications, alog >>


(***************************************************************************)
(* explore(): start and main loop.                                         *)
(***************************************************************************)

\* One start Task per start URL and viewport, in that order.
StartTasks ==
    [ i \in 1..Len(config.viewports) |->
        [url |-> target.start, path |-> <<>>, depth |-> 0,
         viewport |-> config.viewports[i], post |-> NoId] ]

\* Where explore() goes when initialize() throws: its catch block.
AfterInitFailureMut == "start"
AfterInitFailure == "error"

\* Where explore() goes from its catch block: finally, cleanup.
AfterRejectMut == "rejected"
AfterReject == "cleanup"

\* The catch of exploreTask: the error is logged, the page is closed.
AfterTaskErrorMut == "error"
AfterTaskError == "close"

\* The adapters of the configuration, in the order initialize() connects them.
ConfiguredAdapters == config.adapters

\* 'start' is emitted; initialize(): browser launch, context, and one
\* connect per configured adapter.  Any failure is thrown: a failing launch
\* leaves both references null, a failing newContext leaves the browser.
Initialize ==
    /\ pc = "init"
    /\ \/ /\ xlog' = << "start", "launch" >>
                     \o [i \in 1..Len(ConfiguredAdapters) |-> "connect"]
          /\ browser' = "open"
          /\ context' = "open"
          /\ pc' = "start"
          /\ UNCHANGED faults
       \/ /\ Fail
          /\ faults' = faults - 1
          /\ xlog' = << "start", "launch:fail" >>
          /\ browser' \in {"null", "open"}
          /\ context' = "null"
          /\ pc' = AfterInitFailure
       \/ /\ Fail
          /\ ConfiguredAdapters # <<>>
          /\ faults' = faults - 1
          /\ xlog' = << "start", "launch", "connect:fail" >>
          /\ browser' = "open"
          /\ context' = "open"
          /\ pc' = AfterInitFailure
    /\ UNCHANGED << LinkVars, ConsoleVars, result, config, target, visited, queue, graph, page, pageOpen,
                    loopExit, nonce >>
    /\ UNCHANGED TaskVars
    /\ UNCHANGED ActionVars

\* explore(), up to the main loop: push the start Tasks.
Start ==
    /\ pc = "start"
    /\ queue' = queue \o StartTasks
    /\ pc' = "loop"
    /\ UNCHANGED << LinkVars, browser, context, ConsoleVars, result, config, target, visited, graph, page, pageOpen, loopExit,
                    nonce, xlog, faults >>
    /\ UNCHANGED TaskVars
    /\ UNCHANGED ActionVars

\* while (queue.length > 0) fails: the loop ends.
LoopExit ==
    /\ pc = "loop"
    /\ queue = <<>>
    /\ loopExit' = "empty"
    /\ pc' = "finish"
    /\ UNCHANGED << LinkVars, browser, context, ConsoleVars, result, config, target, visited, queue, graph, page, pageOpen,
                    nonce, xlog, faults >>
    /\ UNCHANGED TaskVars
    /\ UNCHANGED ActionVars

\* A dequeued Task deeper than the limit is dropped (continue).
DropTask ==
    /\ pc = "loop"
    /\ queue # <<>>
    /\ TooDeep(Head(queue))
    /\ queue' = Shift(queue)
    /\ task' = Head(queue)
    /\ tlog' = << "dropped" >>
    /\ state' = NoId
    /\ actions' = <<>>
    /\ idx' = 0
    /\ pc' = "loop"
    /\ UNCHANGED << LinkVars, browser, context, ConsoleVars, result, config, target, visited, graph, page, pageOpen, loopExit,
                    nonce, xlog, faults >>
    /\ UNCHANGED ActionVars

\* The visited cap is reached: the loop ends (break).
CapBreak ==
    /\ pc = "loop"
    /\ queue # <<>>
    /\ ~TooDeep(Head(queue))
    /\ CapReached
    /\ queue' = Shift(queue)
    /\ task' = Head(queue)
    /\ tlog' = << "cap" >>
    /\ state' = NoId
    /\ actions' = <<>>
    /\ idx' = 0
    /\ loopExit' = "cap"
    /\ pc' = "finish"
    /\ UNCHANGED << LinkVars, browser, context, ConsoleVars, result, config, target, visited, graph, page, pageOpen, nonce,
                    xlog, faults >>
    /\ UNCHANGED ActionVars

\* exploreTask(task) is called: a page is opened.  newPage() is outside
\* the try block: its failure leaves explore().
BeginTask ==
    /\ pc = "loop"
    /\ queue # <<>>
    /\ ~TooDeep(Head(queue))
    /\ ~CapReached
    /\ queue' = Shift(queue)
    /\ task' = Head(queue)
    /\ state' = NoId
    /\ actions' = <<>>
    /\ idx' = 0
    /\ \/ /\ pageOpen' = TRUE
          /\ tlog' = << "page" >>
          /\ pc' = "goto"
          /\ UNCHANGED faults
       \/ /\ Fail
          /\ faults' = faults - 1
          /\ pageOpen' = FALSE
          /\ tlog' = << "page:fail" >>
          /\ pc' = "error"
    /\ UNCHANGED << LinkVars, browser, context, ConsoleVars, result, config, target, visited, graph, page, loopExit, nonce, xlog >>
    /\ UNCHANGED ActionVars

\* Explorer.getAllIssues: the issues of the nodes, node after node in the
\* order of graph.states.values(), the order of insertion (ids: the ids
\* still to walk).
RECURSIVE getAllIssues(_, _)
getAllIssues(g, ids) ==
    IF ids = <<>> THEN <<>>
    ELSE g.states[Head(ids)].issues \o getAllIssues(g, Tail(ids))

\* The verification results of a list of transitions.
RECURSIVE TransitionVerifications(_)
TransitionVerifications(trs) ==
    IF trs = <<>> THEN <<>>
    ELSE Head(trs).verifications \o TransitionVerifications(Tail(trs))

\* Explorer.getAllVerifications: the results of the transitions of the
\* nodes, node after node in the order of insertion.
RECURSIVE getAllVerifications(_, _)
getAllVerifications(g, ids) ==
    IF ids = <<>> THEN <<>>
    ELSE TransitionVerifications(g.states[Head(ids)].transitions)
             \o getAllVerifications(g, Tail(ids))

\* The reduce over graph.states.values(): the number of transitions.
RECURSIVE CountTransitions(_, _)
CountTransitions(g, ids) ==
    IF ids = <<>> THEN 0
    ELSE Len(g.states[Head(ids)].transitions) + CountTransitions(g, Tail(ids))

\* Array.filter(...).length on the verification results.
CountPassed(vs, passed) ==
    Cardinality({ i \in 1..Len(vs) : vs[i].passed = passed })

\* Explorer.buildResult.
buildResultMut(g) ==
    [ summary |-> [statesExplored |-> Cardinality(visited),
                   actionsPerformed |-> CountTransitions(g, g.order),
                   issuesFound |-> Len(getAllIssues(g, g.order)),
                   verificationsPassed |->
                       CountPassed(getAllVerifications(g, g.order), TRUE),
                   verificationsFailed |->
                       CountPassed(getAllVerifications(g, g.order), FALSE)],
      issues |-> getAllIssues(g, g.order),
      verifications |-> getAllVerifications(g, g.order) ]
buildResult(g) ==
    [ summary |-> [statesExplored |-> Cardinality(DOMAIN g.states),
                   actionsPerformed |-> CountTransitions(g, g.order),
                   issuesFound |-> Len(getAllIssues(g, g.order)),
                   verificationsPassed |->
                       CountPassed(getAllVerifications(g, g.order), TRUE),
                   verificationsFailed |->
                       CountPassed(getAllVerifications(g, g.order), FALSE)],
      issues |-> getAllIssues(g, g.order),
      verifications |-> getAllVerifications(g, g.order) ]

\* The loop has ended: the result is built and 'complete' is emitted.
Finish ==
    /\ pc = "finish"
    /\ result' = buildResult(graph)
    /\ xlog' = Append(xlog, "complete")
    /\ pc' = "cleanup"
    /\ UNCHANGED << LinkVars, browser, context, ConsoleVars, config, target, visited, queue, graph, page, pageOpen,
                    loopExit, nonce, faults >>
    /\ UNCHANGED TaskVars
    /\ UNCHANGED ActionVars

\* catch of explore(): 'error' is emitted and the error is rethrown.
Reject ==
    /\ pc = "error"
    /\ loopExit' = "error"
    /\ xlog' = Append(xlog, "error")
    /\ pc' = AfterReject
    /\ UNCHANGED << LinkVars, browser, context, ConsoleVars, result, config, target, visited, queue, graph, page, pageOpen,
                    nonce, faults >>
    /\ UNCHANGED TaskVars
    /\ UNCHANGED ActionVars

\* The adapters in the registry: initialize() registers an adapter after
\* its connect has returned.
RegisteredAdapters ==
    IF \E i \in 1..Len(xlog) : xlog[i] = "connect" THEN ConfiguredAdapters ELSE <<>>

\* finally of explore(): cleanup() disconnects the adapters, then closes
\* the context and resets its reference, then closes the browser and resets
\* its reference; a reference that is null is skipped.  Then explore()
\* resolves or rejects.  A call that raises leaves cleanup() at once, with
\* the references not yet reset as they are: explore() rejects with that
\* error, whatever it was about to return.  "cleanup" is logged when
\* cleanup() is over.
Cleanup ==
    /\ pc = "cleanup"
    /\ \/ /\ xlog' = Append(xlog, "cleanup")
          /\ browser' = "null"
          /\ context' = "null"
          /\ pc' = IF loopExit = "error" THEN "rejected" ELSE "done"
          /\ UNCHANGED << result, faults >>
       \/ /\ Fail
          /\ RegisteredAdapters # <<>>
          /\ faults' = faults - 1
          /\ xlog' = xlog \o << "disconnect:fail", "cleanup" >>
          /\ result' = Unresolved
          /\ pc' = "rejected"
          /\ UNCHANGED << browser, context >>
       \/ /\ Fail
          /\ context # "null"
          /\ faults' = faults - 1
          /\ xlog' = xlog \o << "context.close:fail", "cleanup" >>
          /\ result' = Unresolved
          /\ pc' = "rejected"
          /\ UNCHANGED << browser, context >>
       \/ /\ Fail
          /\ browser # "null"
          /\ faults' = faults - 1
          /\ xlog' = xlog \o << "browser.close:fail", "cleanup" >>
          /\ result' = Unresolved
          /\ context' = "null"
          /\ pc' = "rejected"
          /\ UNCHANGED browser
    /\ UNCHANGED << LinkVars, ConsoleVars, config, target, visited, queue, graph, page, pageOpen,
                    loopExit, nonce >>
    /\ UNCHANGED TaskVars
    /\ UNCHANGED ActionVars

(***************************************************************************)
(* exploreTask().                                                          *)
(***************************************************************************)

\* setViewportSize, goto(task.url), replayPath(task.path).  A failing
\* viewport set-up or navigation throws; a replay step that fails only
\* truncates the replay.
TaskNavigate ==
    /\ pc = "goto"
    /\ \/ /\ page' = gotoAndReplay(task.url, task.path)
          /\ LogConsole(page')
          /\ tlog' = Append(tlog, "goto")
          /\ pc' = "capture"
          /\ UNCHANGED faults
       \/ /\ Fail
          /\ faults' = faults - 1
          /\ \E k \in 1..Len(task.path) :
               page' = gotoAndReplay(task.url, SubSeq(task.path, 1, k - 1))
          /\ LogConsole(page')
          /\ tlog' = Append(tlog, "goto:truncated")
          /\ pc' = "capture"
       \/ /\ Fail
          /\ faults' = faults - 1
          /\ tlog' = Append(tlog, "goto:fail")
          /\ pc' = AfterTaskError
          /\ UNCHANGED << page, ConsoleVars >>
    /\ UNCHANGED << LinkVars, browser, context, result, xlog, config, target, visited, queue, graph, pageOpen, loopExit,
                    nonce, task, state, actions, idx >>
    /\ UNCHANGED ActionVars

\* Where exploreTask goes on its early return: the return is inside the
\* try, so the finally block closes the page.
AfterDedupMut == "loop"
AfterDedup == "close"

\* captureState, then the dedup check: a state already visited ends the
\* Task; a new one is marked visited.
TaskCapture ==
    /\ pc = "capture"
    /\ \/ LET id == captureState(page, task.viewport, nonce)
          IN  /\ state' = id
              /\ nonce' = IF target.fresh THEN nonce + 1 ELSE nonce
              /\ IF AlreadyVisited(id)
                 THEN /\ tlog' = Append(tlog, "dedup")
                      /\ pc' = AfterDedup
                      /\ UNCHANGED visited
                 ELSE /\ visited' = visited \cup {id}
                      /\ tlog' = Append(tlog, "visited")
                      /\ pc' = "validate"
              /\ UNCHANGED faults
       \/ /\ Fail
          /\ faults' = faults - 1
          /\ tlog' = Append(tlog, "capture:fail")
          /\ pc' = AfterTaskError
          /\ UNCHANGED << state, nonce, visited >>
    /\ UNCHANGED << LinkVars, browser, context, ConsoleVars, result, xlog, config, target, queue, graph, page, pageOpen, loopExit,
                    task, actions, idx >>
    /\ UNCHANGED ActionVars

\* Screenshot (failure ignored), runValidators, addStateToGraph.
TaskValidate ==
    /\ pc = "validate"
    /\ \/ /\ graph' = addStateToGraph(graph, state,
                                   runValidators(page, task.viewport, consoleErrors))
          /\ consoleErrors' = DrainedBuffer(consoleErrors)
          /\ tlog' = Append(tlog, "node")
          /\ pc' = "discover"
          /\ UNCHANGED faults
       \/ /\ Fail
          /\ faults' = faults - 1
          /\ tlog' = Append(tlog, "validate:fail")
          /\ pc' = AfterTaskError
          /\ UNCHANGED << graph, consoleErrors >>
    /\ UNCHANGED << LinkVars, browser, context, result, xlog, config, target, visited, queue, page, pageOpen, loopExit,
                    nonce, task, state, actions, idx >>
    /\ UNCHANGED captured
    /\ UNCHANGED ActionVars

\* discoverActions, prioritizeActions, slice(0, maxActions).
TaskDiscover ==
    /\ pc = "discover"
    /\ \/ /\ actions' = Slice(target.acts[page], EffMaxActions)
          /\ tlog' = Append(tlog, "discover")
          /\ pc' = "actions"
          /\ UNCHANGED faults
       \/ /\ Fail
          /\ faults' = faults - 1
          /\ tlog' = Append(tlog, "discover:fail")
          /\ pc' = AfterTaskError
          /\ UNCHANGED actions
    /\ idx' = 0
    /\ UNCHANGED << LinkVars, browser, context, ConsoleVars, result, xlog, config, target, visited, queue, graph, page, pageOpen,
                    loopExit, nonce, task, state >>
    /\ UNCHANGED ActionVars

\* The test of `for (const action of actionsToExplore)`: candidates are
\* left.  No limit is looked at inside a Task.
MoreActionsMut == idx < Len(actions) /\ ~CapReached
MoreActions == idx < Len(actions)

\* for (const action of actionsToExplore): the next candidate action.
NextAction ==
    /\ pc = "actions"
    /\ MoreActions
    /\ idx' = idx + 1
    /\ alog' = << "start" >>
    /\ schema' = 0
    /\ stepIdx' = 0
    /\ toState' = NoId
    /\ verifications' = <<>>
    /\ pc' = "pre"
    /\ UNCHANGED << LinkVars, browser, context, ConsoleVars, result, xlog, config, target, visited, queue, graph, page, pageOpen,
                    loopExit, nonce, faults, task, state, actions, tlog >>

\* All candidate actions were attempted.
TaskEnd ==
    /\ pc = "actions"
    /\ ~MoreActions
    /\ tlog' = Append(tlog, "explored")
    /\ pc' = "close"
    /\ UNCHANGED << LinkVars, browser, context, ConsoleVars, result, xlog, config, target, visited, queue, graph, page, pageOpen,
                    loopExit, nonce, faults, task, state, actions, idx >>
    /\ UNCHANGED ActionVars

\* finally: page.close(); back in the loop.  A close that throws is
\* thrown out of exploreTask and out of the loop, into the catch of
\* explore().
TaskClose ==
    /\ pc = "close"
    /\ \/ /\ pageOpen' = FALSE
          /\ page' = NoPage
          /\ pc' = "loop"
          /\ UNCHANGED << faults, tlog >>
       \/ /\ Fail
          /\ faults' = faults - 1
          /\ tlog' = Append(tlog, "close:fail")
          /\ pc' = "error"
          /\ UNCHANGED << page, pageOpen >>
    /\ UNCHANGED << LinkVars, browser, context, ConsoleVars, result, xlog, config, target, visited, queue, graph, loopExit, nonce >>
    /\ UNCHANGED << task, state, actions, idx >>
    /\ UNCHANGED ActionVars


(***************************************************************************)
(* exploreAction().                                                        *)
(***************************************************************************)

CurAction == actions[idx]
CurSchema == config.actionSchemas[schema]

\* executeSetup's catch: the failure of an optional step is swallowed.
SwallowedMut(step) == TRUE
Swallowed(step) == step.optional

\* Where the control goes when the recovery in the catch block is over.
AfterRecoverMut == "close"
AfterRecover == "actions"

\* findMatchingSchema and the backend pre-snapshot (captureAllStates).
ActPre ==
    /\ pc = "pre"
    /\ \/ LET m == findMatchingSchema(CurAction, page)
          IN  /\ schema' = m
              /\ alog' = alog \o << "schema", "pre" >>
              /\ IF m # 0 /\ config.actionSchemas[m].hasSetup
                 THEN pc' = "setup" /\ stepIdx' = 1
                 ELSE pc' = "exec" /\ stepIdx' = 0
              /\ UNCHANGED faults
       \/ /\ Fail
          /\ faults' = faults - 1
          /\ schema' = findMatchingSchema(CurAction, page)
          /\ alog' = alog \o << "schema", "pre:fail" >>
          /\ pc' = "recover"
          /\ UNCHANGED stepIdx
    /\ UNCHANGED << LinkVars, browser, context, ConsoleVars, result, xlog, config, target, visited, queue, graph, page, pageOpen,
                    loopExit, nonce, toState, verifications >>
    /\ UNCHANGED TaskVars

\* executeSetup: one step of the loop over the setup steps.
SetupStep ==
    /\ pc = "setup"
    /\ stepIdx <= Len(CurSchema.setup)
    /\ \/ /\ alog' = Append(alog, "setup:ok")
          /\ stepIdx' = stepIdx + 1
          /\ pc' = "setup"
          /\ UNCHANGED faults
       \/ /\ Fail
          /\ faults' = faults - 1
          /\ IF Swallowed(CurSchema.setup[stepIdx])
             THEN /\ alog' = Append(alog, "setup:swallowed")
                  /\ stepIdx' = stepIdx + 1
                  /\ pc' = "setup"
             ELSE /\ alog' = Append(alog, "setup:fail")
                  /\ pc' = "recover"
                  /\ UNCHANGED stepIdx
    /\ UNCHANGED << LinkVars, browser, context, ConsoleVars, result, xlog, config, target, visited, queue, graph, page, pageOpen,
                    loopExit, nonce, schema, toState, verifications >>
    /\ UNCHANGED TaskVars

\* executeSetup returns: all steps were run.
SetupDone ==
    /\ pc = "setup"
    /\ stepIdx > Len(CurSchema.setup)
    /\ pc' = "exec"
    /\ UNCHANGED << LinkVars, browser, context, ConsoleVars, result, xlog, config, target, visited, queue, graph, page, pageOpen,
                    loopExit, nonce, faults >>
    /\ UNCHANGED TaskVars
    /\ UNCHANGED ActionVars

\* What follows the action and the settle waits in exploreAction: the
\* capture of the post-action state.
AfterExecuteMut == "record"
AfterExecute == "post"

\* executeAction and the settle waits: the element must be there.  The
\* wait for the network is allowed to fail; the delay that follows
\* (waitForTimeout) is not: when it throws the interaction has taken place.
ActExecute ==
    /\ pc = "exec"
    /\ \/ /\ Present(target, page, CurAction)
          /\ page' = target.delta[page][CurAction]
          /\ LogConsole(page')
          /\ alog' = Append(alog, "exec")
          /\ pc' = AfterExecute
          /\ UNCHANGED faults
       \/ /\ Present(target, page, CurAction)
          /\ Fail
          /\ faults' = faults - 1
          /\ page' = target.delta[page][CurAction]
          /\ LogConsole(page')
          /\ alog' = alog \o << "exec", "settle:fail" >>
          /\ pc' = "recover"
       \/ /\ ~Present(target, page, CurAction)
          /\ alog' = Append(alog, "exec:fail")
          /\ pc' = "recover"
          /\ UNCHANGED << page, faults, ConsoleVars >>
       \/ /\ Fail
          /\ faults' = faults - 1
          /\ alog' = Append(alog, "exec:fail")
          /\ pc' = "recover"
          /\ UNCHANGED << page, ConsoleVars >>
    /\ UNCHANGED << LinkVars, browser, context, result, xlog, config, target, visited, queue, graph, pageOpen, loopExit,
                    nonce, schema, stepIdx, toState, verifications >>
    /\ UNCHANGED TaskVars

\* captureState of the post-action state.
ActCapture ==
    /\ pc = "post"
    /\ \/ /\ toState' = captureState(page, task.viewport, nonce)
          /\ nonce' = IF target.fresh THEN nonce + 1 ELSE nonce
          /\ alog' = Append(alog, "post")
          /\ pc' = "verify"
          /\ UNCHANGED faults
       \/ /\ Fail
          /\ faults' = faults - 1
          /\ alog' = Append(alog, "post:fail")
          /\ pc' = "recover"
          /\ UNCHANGED << toState, nonce >>
    /\ UNCHANGED << LinkVars, browser, context, ConsoleVars, result, xlog, config, target, visited, queue, graph, page, pageOpen,
                    loopExit, schema, stepIdx, verifications >>
    /\ UNCHANGED TaskVars

\* verifyExpectations of the matched schema, if any.  A throwing isVisible
\* is caught by verifyUiExpectations; a throwing adapter call leaves
\* verifyExpectations and the try block.
ActVerify ==
    /\ pc = "verify"
    /\ \/ /\ schema = 0
          /\ verifications' = <<>>
          /\ alog' = Append(alog, "verify")
          /\ pc' = "record"
          /\ UNCHANGED faults
       \/ /\ schema # 0
          /\ \E dbPassed \in BOOLEAN :
               verifications' = verifyExpectations(CurSchema.expects, page, dbPassed,
                                                   0, {})
          /\ alog' = Append(alog, "verify")
          /\ pc' = "record"
          /\ UNCHANGED faults
       \/ /\ schema # 0
          /\ Fail
          /\ \E thrown \in SUBSET (1..VisibleCalls(CurSchema.expects)) :
               /\ thrown # {}
               /\ Cardinality(thrown) <= faults
               /\ faults' = faults - Cardinality(thrown)
               /\ \E dbPassed \in BOOLEAN :
                    verifications' = verifyExpectations(CurSchema.expects, page,
                                                        dbPassed, 0, thrown)
          /\ alog' = Append(alog, "verify")
          /\ pc' = "record"
       \/ /\ schema # 0
          /\ AdapterCalls(CurSchema.expects) # {}
          /\ Fail
          /\ faults' = faults - 1
          /\ alog' = Append(alog, "verify:fail")
          /\ pc' = "recover"
          /\ UNCHANGED verifications
    /\ UNCHANGED << LinkVars, browser, context, ConsoleVars, result, xlog, config, target, visited, queue, graph, page, pageOpen,
                    loopExit, nonce, schema, stepIdx, toState >>
    /\ UNCHANGED TaskVars

\* addTransitionToGraph, then a new Task if the post-state is not visited.
ActRecord ==
    /\ pc = "record"
    /\ graph' = addTransitionToGraph(graph, state, toState, CurAction,
                                     task.viewport, verifications)
    /\ IF NotYetVisited(toState)
       THEN /\ queue' = Enqueue(queue, [url |-> target.url[page],
                                        path |-> Append(task.path, CurAction),
                                        depth |-> task.depth + 1,
                                        viewport |-> task.viewport,
                                        post |-> toState])
            /\ alog' = alog \o << "record", "enqueue" >>
       ELSE /\ alog' = Append(alog, "record")
            /\ UNCHANGED queue
    /\ pc' = "reset"
    /\ UNCHANGED << LinkVars, browser, context, ConsoleVars, result, xlog, config, target, visited, page, pageOpen, loopExit, nonce,
                    faults, schema, stepIdx, toState, verifications >>
    /\ UNCHANGED TaskVars

\* Backtrack: goto(task.url) and replayPath(task.path), inside the try.
ActReset ==
    /\ pc = "reset"
    /\ \/ /\ page' = gotoAndReplay(task.url, task.path)
          /\ LogConsole(page')
          /\ alog' = Append(alog, "reset")
          /\ tlog' = Append(tlog, "action:ok")
          /\ pc' = "actions"
          /\ UNCHANGED faults
       \/ /\ Fail
          /\ faults' = faults - 1
          /\ \E k \in 1..Len(task.path) :
               page' = gotoAndReplay(task.url, SubSeq(task.path, 1, k - 1))
          /\ LogConsole(page')
          /\ alog' = Append(alog, "reset")
          /\ tlog' = Append(tlog, "action:ok")
          /\ pc' = "actions"
       \/ /\ Fail
          /\ faults' = faults - 1
          /\ alog' = Append(alog, "reset:fail")
          /\ pc' = "recover"
          /\ UNCHANGED << page, tlog, ConsoleVars >>
    /\ UNCHANGED << LinkVars, browser, context, result, xlog, config, target, visited, queue, graph, pageOpen, loopExit,
                    nonce, schema, stepIdx, toState, verifications >>
    /\ UNCHANGED << task, state, actions, idx >>

\* catch: 'action:error' is emitted, then goto(task.url) and replayPath are
\* tried; a failure of this recovery is swallowed.
ActRecover ==
    /\ pc = "recover"
    /\ \/ /\ page' = gotoAndReplay(task.url, task.path)
          /\ LogConsole(page')
          /\ alog' = alog \o << "error", "recover" >>
          /\ UNCHANGED faults
       \/ /\ Fail
          /\ faults' = faults - 1
          /\ \E k \in 1..Len(task.path) :
               page' = gotoAndReplay(task.url, SubSeq(task.path, 1, k - 1))
          /\ LogConsole(page')
          /\ alog' = alog \o << "error", "recover" >>
       \/ /\ Fail
          /\ faults' = faults - 1
          /\ alog' = alog \o << "error", "recover:fail" >>
          /\ UNCHANGED << page, ConsoleVars >>
    /\ tlog' = Append(tlog, "action:error")
    /\ pc' = AfterRecover
    /\ UNCHANGED << LinkVars, browser, context, result, xlog, config, target, visited, queue, graph, pageOpen, loopExit,
                    nonce, schema, stepIdx, toState, verifications >>
    /\ UNCHANGED << task, state, actions, idx >>

Next ==
    \/ Initialize
    \/ Start
    \/ LoopExit
    \/ DropTask
    \/ CapBreak
    \/ BeginTask
    \/ Finish
    \/ Reject
    \/ Cleanup
    \/ TaskNavigate
    \/ TaskCapture
    \/ TaskValidate
    \/ TaskDiscover
    \/ NextAction
    \/ TaskEnd
    \/ TaskClose
    \/ ActPre
    \/ SetupStep
    \/ SetupDone
    \/ ActExecute
    \/ ActCapture
    \/ ActVerify
    \/ ActRecord
    \/ ActReset
    \/ ActRecover

Spec == Init /\ [][Next]_vars

\* The scheduler runs the single control flow of explore() to its end.
LiveSpec == Init /\ [][Next]_vars /\ WF_vars(Next)

TypeOK ==
    /\ pc \in {"init", "start", "cleanup", "loop", "finish", "done", "error", "rejected", "goto",
               "capture", "validate", "discover", "actions", "close", "pre",
               "setup", "exec", "post", "verify", "record", "reset", "recover"}
    /\ faults \in 0..MaxFaults
    /\ idx \in 0..Len(actions)
    /\ pageOpen \in BOOLEAN


(***************************************************************************)
(* BrokenLinksValidator: validate(), checkLinksWithConcurrency(),          *)
(* checkLink() and resultToIssue().                                         *)
(***************************************************************************)

\* The longest list of links to check.
MaxLinks == 6

\* validate() passes this limit to checkLinksWithConcurrency.
Concurrency == 5

\* HTTP statuses singled out by checkLink and resultToIssue.
StatusOk == 200
StatusClientError == 400
StatusNotFound == 404
StatusMethodNotAllowed == 405
StatusServerError == 500

\* null (no status, no error): falsy like 0 and "".
NoStatus == 0
NoError == ""

\* The URLs a page links to, and how their server behaves.
Hrefs == << "gone", "slow", "ok", "moved", "down", "denied", "refused",
            "nohead", "noheadslow" >>

Responds(code) == [status |-> code, name |-> "", message |-> ""]
Throws(errName, msg) == [status |-> NoStatus, name |-> errName, message |-> msg]

\* fetch(href, {method}): the response, or the error it rejects with.  The
\* HEAD request is aborted by controller.abort() (an AbortError), the GET
\* request by AbortSignal.timeout (a TimeoutError).
Fetch(href, method) ==
    CASE href = "gone" -> Responds(StatusNotFound)
      [] href = "slow" -> Throws("AbortError", "This operation was aborted")
      [] href = "ok" -> Responds(StatusOk)
      [] href = "moved" -> Responds(301)
      [] href = "down" -> Responds(503)
      [] href = "denied" -> Responds(403)
      [] href = "refused" -> Throws("TypeError", "fetch failed")
      [] href = "nohead" -> IF method = "HEAD" THEN Responds(StatusMethodNotAllowed)
                             ELSE Responds(StatusOk)
      [] OTHER -> IF method = "HEAD" THEN Responds(StatusMethodNotAllowed)
                  ELSE Throws("TimeoutError", "The operation was aborted due to timeout")

\* error.message.includes('fetch').
MessageIncludesFetch(msg) == msg = "fetch failed"

\* checkLink's catch block: the text kept as result.error.
ErrorText(err) ==
    IF err.name = "AbortError" THEN "Timeout"
    ELSE IF MessageIncludesFetch(err.message) THEN "Connection failed"
    ELSE err.message

\* checkLink on a URL that is not in the cache: HEAD, and GET after a 405.
\* The status is assigned before the GET, so it stays when the GET throws.
checkLink(link) ==
    LET head == Fetch(link.href, "HEAD")
    IN  IF head.name # ""
        THEN [link |-> link, status |-> NoStatus, error |-> ErrorText(head)]
        ELSE IF head.status = StatusMethodNotAllowed
        THEN LET get == Fetch(link.href, "GET")
             IN  IF get.name # ""
                 THEN [link |-> link, status |-> head.status, error |-> ErrorText(get)]
                 ELSE [link |-> link, status |-> get.status, error |-> NoError]
        ELSE [link |-> link, status |-> head.status, error |-> NoError]

NoIssue == [rule |-> "none", severity |-> "none", element |-> 0]

\* resultToIssue: NoIssue stands for null.
resultToIssue(res) ==
    IF res.status # NoStatus /\ res.status >= StatusOk
           /\ res.status < StatusClientError
    THEN NoIssue
    ELSE IF res.error # NoError
    THEN IF res.error = "Timeout"
         THEN [rule |-> "link-timeout", severity |-> "moderate",
               element |-> res.link.selector]
         ELSE [rule |-> "link-connection-error", severity |-> "serious",
               element |-> res.link.selector]
    ELSE IF res.status = StatusNotFound
    THEN [rule |-> "broken-link-404", severity |-> "serious",
          element |-> res.link.selector]
    ELSE IF res.status # NoStatus /\ res.status >= StatusServerError
    THEN [rule |-> "broken-link-server-error", severity |-> "critical",
          element |-> res.link.selector]
    ELSE IF res.status # NoStatus /\ res.status >= StatusClientError
    THEN [rule |-> "broken-link-client-error", severity |-> "moderate",
          element |-> res.link.selector]
    ELSE [rule |-> "link-unknown-status", severity |-> "minor",
          element |-> res.link.selector]

\* validate's loop over the results: the issues, in the order of the results.
RECURSIVE resultsToIssues(_)
resultsToIssues(rs) ==
    IF rs = <<>> THEN <<>>
    ELSE LET issue == resultToIssue(Head(rs))
         IN  (IF issue = NoIssue THEN <<>> ELSE << issue >>)
                 \o resultsToIssues(Tail(rs))

\* Where the lists of links start among the known URLs: every third URL.
LinkStarts == { s \in 1..Len(Hrefs) : s % 3 = 1 }

\* A list of n links: a run over the known URLs from URL s with stride d
\* (0: the same URL again and again).  A link's selector tells the links
\* of a page apart.
LinkRun(n, s, d) ==
    [i \in 1..n |-> [href |-> Hrefs[((s - 1 + d * (i - 1)) % Len(Hrefs)) + 1],
                     selector |-> i]]

\* The lists of links validate() is given.  A list that fits the pool of
\* workers starts at any of the starts, with stride 0, 1 or 2; a list of one
\* link more starts at the first URL, with stride 0 or 1; a still longer
\* one repeats the first URL.
LinkLists ==
    { LinkRun(n, s, d) : n \in { k \in 0..MaxLinks : k <= Concurrency },
                         s \in LinkStarts, d \in 0..2 }
    \cup { LinkRun(n, 1, d) : n \in { k \in 1..MaxLinks : k = Concurrency + 1 },
                              d \in 0..1 }
    \cup { LinkRun(n, 1, 0) : n \in (Concurrency + 2)..MaxLinks }

NoLink == [href |-> "", selector |-> 0]
NoResult == [link |-> NoLink, status |-> NoStatus, error |-> NoError]

\* Math.min(concurrency, queue.length): the number of workers.
PoolSizeMut(concurrency, n) == n
PoolSize(concurrency, n) == IF concurrency < n THEN concurrency ELSE n

\* The test that ends a worker's loop: `queue.length > 0` fails.
DrainedMut(q) == Len(q) <= 1
Drained(q) == q = <<>>

\* A worker whose loop has ended.
DoneWorker == [st |-> "done", link |-> NoLink, hit |-> FALSE, res |-> NoResult]

\* A worker calls checkLink and awaits it.  The cache is looked up at once:
\* on a hit checkLink has returned the cached result with this link
\* ("settled") and the worker resumes later; on a miss the HEAD request is
\* under way ("busy").
StartCheck(link, cache) ==
    IF link.href \in DOMAIN cache
    THEN [st |-> "settled", link |-> link, hit |-> TRUE,
          res |-> [cache[link.href] EXCEPT !.link = link]]
    ELSE [st |-> "busy", link |-> link, hit |-> FALSE, res |-> NoResult]

\* The requests sent, per URL, when the workers ws have called checkLink: a
\* worker that missed the cache has sent one.
RECURSIVE Requested(_, _)
Requested(reqs, ws) ==
    IF ws = <<>> THEN reqs
    ELSE LET h == Head(ws).link.href
             n == IF h \in DOMAIN reqs THEN reqs[h] ELSE 0
         IN  Requested(IF Head(ws).st = "busy" THEN (h :> n + 1) @@ reqs ELSE reqs,
                       Tail(ws))

\* The workers are created one after the other; each runs up to its first
\* await, taking the head of the queue if there is one.
RECURSIVE SpawnWorkers(_, _, _)
SpawnWorkers(k, q, cache) ==
    IF k = 0 THEN <<>>
    ELSE IF Drained(q) THEN << DoneWorker >> \o SpawnWorkers(k - 1, q, cache)
    ELSE << StartCheck(Head(q), cache) >> \o SpawnWorkers(k - 1, Tail(q), cache)

\* What is left in the queue when the workers are created.
RECURSIVE SpawnRest(_, _)
SpawnRest(k, q) ==
    IF k = 0 \/ Drained(q) THEN q ELSE SpawnRest(k - 1, Tail(q))

\* validate(), up to the first await of checkLinksWithConcurrency.
Validate ==
    /\ lpc = "start"
    /\ IF ~enabled
       THEN /\ linkIssues' = <<>>
            /\ lpc' = "done"
            /\ UNCHANGED << lqueue, workers, results, sent >>
       ELSE /\ workers' = SpawnWorkers(PoolSize(Concurrency, Len(links)), links,
                                       checkedUrls)
            /\ lqueue' = SpawnRest(PoolSize(Concurrency, Len(links)), links)
            /\ results' = <<>>
            /\ sent' = Requested(sent, workers')
            /\ lpc' = "running"
            /\ UNCHANGED linkIssues
    /\ UNCHANGED << enabled, links, checkedUrls >>
    /\ UNCHANGED ExplorerVars

\* `response.status === 405`: the HEAD request was answered, with 405.
HeadNotAllowed(link) ==
    LET head == Fetch(link.href, "HEAD")
    IN  head.name = "" /\ head.status = StatusMethodNotAllowed

\* checkLink resumes when its HEAD request has been answered with 405: it
\* sends a GET request for the same URL and awaits it ("retry").
Retry(w) ==
    /\ lpc = "running"
    /\ workers[w].st = "busy"
    /\ HeadNotAllowed(workers[w].link)
    /\ workers' = [workers EXCEPT ![w] = [@ EXCEPT !.st = "retry"]]
    /\ sent' = LET h == workers[w].link.href
               IN  (h :> (IF h \in DOMAIN sent THEN sent[h] ELSE 0) + 1) @@ sent
    /\ UNCHANGED << enabled, links, lqueue, results, checkedUrls, linkIssues, lpc >>
    /\ UNCHANGED ExplorerVars

\* checkLink resumes when its last request has been answered or has failed
\* (the HEAD request unless it was answered with 405, the GET request
\* otherwise): the result is written to the cache, over whatever is there,
\* and returned.  The worker awaiting it resumes in a later step.
Settle(w) ==
    /\ lpc = "running"
    /\ \/ workers[w].st = "busy" /\ ~HeadNotAllowed(workers[w].link)
       \/ workers[w].st = "retry"
    /\ LET r == checkLink(workers[w].link)
       IN  /\ checkedUrls' = (workers[w].link.href :> r) @@ checkedUrls
           /\ workers' = [workers EXCEPT ![w] = [@ EXCEPT !.st = "settled", !.res = r]]
    /\ UNCHANGED << enabled, links, lqueue, results, linkIssues, sent, lpc >>
    /\ UNCHANGED ExplorerVars

\* A worker resumes with the result of checkLink: the result is pushed, and
\* the worker takes the next link, calling checkLink on it, or ends.
Complete(w) ==
    /\ lpc = "running"
    /\ workers[w].st = "settled"
    /\ results' = Append(results, workers[w].res)
    /\ IF Drained(lqueue)
       THEN /\ workers' = [workers EXCEPT ![w] = DoneWorker]
            /\ UNCHANGED << lqueue, sent >>
       ELSE /\ workers' = [workers EXCEPT ![w] = StartCheck(Head(lqueue), checkedUrls)]
            /\ sent' = Requested(sent, << workers'[w] >>)
            /\ lqueue' = Tail(lqueue)
    /\ UNCHANGED << enabled, links, checkedUrls, linkIssues, lpc >>
    /\ UNCHANGED ExplorerVars

\* Promise.all(workers) resolves; validate() turns the results into issues.
Return ==
    /\ lpc = "running"
    /\ \A w \in DOMAIN workers : workers[w].st = "done"
    /\ linkIssues' = resultsToIssues(results)
    /\ lpc' = "done"
    /\ UNCHANGED << enabled, links, lqueue, workers, results, checkedUrls, sent >>
    /\ UNCHANGED ExplorerVars

\* clearCache(): the owner of the validator empties the cache.  It is a
\* public, synchronous function and can be called whenever no code of the
\* validator is running: before validate(), between two steps of the
\* workers, or after validate() has returned.
clearCache ==
    /\ checkedUrls' = <<>>
    /\ sent' = <<>>
    /\ UNCHANGED << enabled, links, lqueue, workers, results, linkIssues, lpc >>
    /\ UNCHANGED ExplorerVars

\* A validator is constructed and validate() is called on a page.
LinkInit ==
    /\ enabled \in BOOLEAN
    /\ links \in LinkLists
    /\ lqueue = <<>>
    /\ workers = <<>>
    /\ results = <<>>
    /\ checkedUrls = <<>>
    /\ linkIssues = <<>>
    /\ sent = <<>>
    /\ lpc = "start"
    /\ target = TargetTwoPages
    /\ config = mergeConfig(CHOOSE c \in UserConfigs : Deviations(c) = 0)
    /\ visited = {}
    /\ queue = <<>>
    /\ graph = [states |-> <<>>, order |-> <<>>, startStates |-> <<>>]
    /\ pc = "off"
    /\ task = NoTask
    /\ page = NoPage
    /\ pageOpen = FALSE
    /\ state = NoId
    /\ actions = <<>>
    /\ idx = 0
    /\ schema = 0
    /\ stepIdx = 0
    /\ toState = NoId
    /\ verifications = <<>>
    /\ tlog = <<>>
    /\ alog = <<>>
    /\ loopExit = "none"
    /\ nonce = 0
    /\ xlog = <<>>
    /\ faults = 0
    /\ consoleErrors = <<>>
    /\ captured = 0
    /\ result = Unresolved
    /\ browser = "null"
    /\ context = "null"

LinkNext ==
    \/ Validate
    \/ \E w \in DOMAIN workers : Retry(w)
    \/ \E w \in DOMAIN workers : Settle(w)
    \/ \E w \in DOMAIN workers : Complete(w)
    \/ Return
    \/ clearCache

LinkSpec == LinkInit /\ [][LinkNext]_vars


(***************************************************************************)
(* Properties.                                                             *)
(***************************************************************************)

HasEvent(log, e) == \E i \in 1..Len(log) : log[i] = e
LastEvent(log) == IF log = <<>> THEN "" ELSE log[Len(log)]

\* Positions of the control flow inside exploreTask, before the page closes.
TaskPcs == {"goto", "capture", "validate", "discover", "actions", "pre",
            "setup", "exec", "post", "verify", "record", "reset", "recover"}

\* No browser call has failed so far in this run.
NoFaultYet == faults = MaxFaults

\* C1: when the state captured for a dequeued Task is already visited, the
\* Task is discarded: the capture step leaves the visited set, the graph
\* and the queue as they are and goes straight to closing the page, and
\* closing the page leaves them unchanged as well (no validator, no node,
\* no action, no transition, no new Task), whether the close returns or
\* raises.
DedupDiscardsTask ==
    [][ /\ (pc = "capture" /\ state' # NoId /\ state' \in visited)
            => /\ pc' = "close"
               /\ visited' = visited /\ graph' = graph /\ queue' = queue
               /\ actions' = <<>> /\ idx' = 0
        /\ (pc = "close" /\ LastEvent(tlog) = "dedup")
            => /\ pc' \in {"loop", "error"}
               /\ pc' = "error" => LastEvent(tlog') = "close:fail"
               /\ visited' = visited /\ graph' = graph /\ queue' = queue
      ]_vars

\* C1 witness: a Task reached through a non-empty path captured a state
\* that was already visited, and was discarded.
DedupDiscardsTaskWitness ==
    /\ pc = "close"
    /\ LastEvent(tlog) = "dedup"
    /\ task.path # <<>>
    /\ state \in visited

\* C2: for a positive configured maxStates the visited set never holds
\* more than maxStates ids, and a Task is inside exploreTask before its
\* capture only while the visited set holds fewer than maxStates ids.
VisitedCapHolds ==
    config.maxStates > 0 =>
        /\ Cardinality(visited) <= config.maxStates
        /\ pc \in {"goto", "capture"} => Cardinality(visited) < config.maxStates

\* C2 witness: the loop was left because the visited set is full, with a
\* Task still dequeued.
VisitedCapHoldsWitness ==
    /\ config.maxStates > 0
    /\ loopExit = "cap"
    /\ Cardinality(visited) = config.maxStates
    /\ tlog = << "cap" >>

\* C3 (as claimed): no Task deeper than the configured maxDepth, 0
\* included, is ever inside exploreTask.
DepthCapHolds ==
    pc \in TaskPcs => task.depth <= config.maxDepth

\* How explore() ended, as the loop's termination rule says.
EndedByRule ==
    /\ pc = "done"
    /\ \/ loopExit = "empty" /\ queue = <<>>
       \/ loopExit = "cap" /\ Cardinality(visited) >= EffMaxStates

\* C4: when every browser call returns or fails, explore() ends: the loop
\* is left with an empty frontier or a full visited set (or explore()
\* rejects because no page could be opened).
ExploreTerminates == <>(EndedByRule \/ pc = "rejected")

\* C4 witness: a target with a fresh identity on every observation was
\* explored until the visited cap ended the loop.
ExploreTerminatesWitness ==
    /\ target.fresh
    /\ EndedByRule
    /\ loopExit = "cap"
    /\ queue # <<>>

\* The application states reachable from the start, by the discovered
\* (capped) actions, in at most n interactions.
RECURSIVE ReachableIn(_)
ReachableIn(n) ==
    IF n = 0 THEN { target.landing[target.start] }
    ELSE LET r == ReachableIn(n - 1)
         IN  r \cup { target.delta[p][a] :
                        <<p, a>> \in { x \in r \X {SelA, SelB, SelAB} :
                              \E i \in 1..Len(Slice(target.acts[x[1]], EffMaxActions)) :
                                  target.acts[x[1]][i] = x[2] } }
Reachable == ReachableIn(Len(target.url))

ViewportSet == { config.viewports[i] : i \in 1..Len(config.viewports) }

\* The limits leave room for every reachable state.
WithinLimits ==
    /\ Cardinality(Reachable) * Cardinality(ViewportSet) <= EffMaxStates
    /\ Cardinality(Reachable) <= EffMaxDepth
    /\ \A p \in States(target) : Len(target.acts[p]) <= EffMaxActions

\* C5 (as claimed): against a deterministic target whose reachable states
\* fit the limits, a run without failures ends with exactly the reachable
\* states visited, in every viewport.
VisitsExactlyReachable ==
    (pc = "done" /\ ~target.fresh /\ NoFaultYet /\ WithinLimits)
        => visited = { <<p, vp, 0>> : p \in Reachable, vp \in ViewportSet }

\* C6 (as claimed): for a deterministic target and no failing call, the
\* state captured for a Task is the post-state the Task was enqueued for.
ReplayReachesPostState ==
    (~target.fresh /\ NoFaultYet /\ state # NoId /\ task.post # NoId)
        => state = task.post

\* The node of the state being explored has a transition for the action.
HasTransitionFor(action) ==
    /\ state \in DOMAIN graph.states
    /\ \E i \in 1..Len(graph.states[state].transitions) :
          graph.states[state].transitions[i].action = action

\* C7 (as claimed): when executing the candidate action (or observing its
\* result) raised, the node of the state it was attempted from has a
\* transition for that action.
FailedActionRecorded ==
    (pc = "actions" /\ idx >= 1 /\ (HasEvent(alog, "exec:fail") \/ HasEvent(alog, "post:fail")))
        => HasTransitionFor(actions[idx])

\* A navigation back to the Task's url was attempted for the action.
ResetAttempted ==
    \/ HasEvent(alog, "reset") \/ HasEvent(alog, "reset:fail")
    \/ HasEvent(alog, "recover") \/ HasEvent(alog, "recover:fail")

\* cleanup() was left by an error of one of its calls.
CleanupFailed ==
    \/ HasEvent(xlog, "disconnect:fail")
    \/ HasEvent(xlog, "context.close:fail")
    \/ HasEvent(xlog, "browser.close:fail")

\* C8: after every candidate action, succeeded or raised, a reset was
\* attempted before the loop goes on; every candidate action of a Task
\* whose actions were discovered is attempted before the page is closed;
\* and explore() is only left with an error when no page could be opened
\* (or when closing a page or the final clean-up raised).
ResetThenNextAction ==
    /\ (pc = "actions" /\ idx >= 1) => ResetAttempted
    /\ (pc = "close" /\ HasEvent(tlog, "discover")) => idx = Len(actions)
    /\ pc \in {"error", "rejected"} =>
         \/ tlog \in { <<>>, << "page:fail" >> }
         \/ LastEvent(tlog) = "close:fail"
         \/ CleanupFailed

\* C8 witness: a candidate action raised, and the next candidate action of
\* the same Task was attempted afterwards.
ResetThenNextActionWitness ==
    /\ pc = "actions"
    /\ idx >= 2
    /\ \E i \in 1..Len(tlog) : tlog[i] = "action:error" /\ i < Len(tlog)

\* C9 (as claimed): once the reset after an action has failed for good, no
\* further candidate action of the Task is started.
ResetFailureEndsTask ==
    [][ (pc = "actions" /\ idx >= 1 /\ HasEvent(alog, "recover:fail")) => pc' # "pre" ]_vars

SetupEvents == {"setup:ok", "setup:swallowed", "setup:fail"}

\* The setup step (by position) the i-th event of the action log is about.
SetupOrdinal(i) == Cardinality({ j \in 1..i : alog[j] \in SetupEvents })

\* C10: a failing setup step is swallowed exactly when it is optional;
\* after a swallowed failure the following steps and the action still run;
\* the failure of a required step ends the attempt (nothing but the error
\* handling follows, the action is not executed, no transition is
\* recorded); without such a failure every setup step is run before the
\* action.
SetupContract ==
    (pc \in TaskPcs /\ idx >= 1) =>
      \A i \in 1..Len(alog) :
         /\ alog[i] = "setup:swallowed" =>
              /\ schema # 0 /\ CurSchema.setup[SetupOrdinal(i)].optional
              /\ i < Len(alog) => alog[i + 1] \in SetupEvents \cup {"exec", "exec:fail"}
              /\ pc \in {"setup", "exec"} \/ i < Len(alog)
         /\ alog[i] = "setup:fail" =>
              /\ schema # 0 /\ ~CurSchema.setup[SetupOrdinal(i)].optional
              /\ \A j \in (i + 1)..Len(alog) : alog[j] \in {"error", "recover", "recover:fail"}
              /\ ~HasTransitionFor(actions[idx])
         /\ (alog[i] \in {"exec", "exec:fail"} /\ schema # 0 /\ CurSchema.hasSetup) =>
              /\ SetupOrdinal(i) = Len(CurSchema.setup)
              /\ ~HasEvent(alog, "setup:fail")

\* C10 witness: in one attempt the failure of the optional first step was
\* swallowed, the second step was run, and its failure ended the attempt.
SetupContractWitness ==
    /\ pc = "actions"
    /\ HasEvent(alog, "setup:swallowed")
    /\ HasEvent(alog, "setup:fail")

\* The transition recorded for the action on the node being explored has a
\* verification result of the given type.
TransitionHasResult(action, type) ==
    /\ state \in DOMAIN graph.states
    /\ \E i \in 1..Len(graph.states[state].transitions) :
          LET tr == graph.states[state].transitions[i]
          IN  /\ tr.action = action
              /\ \E k \in 1..Len(tr.verifications) : tr.verifications[k].type = type

\* C11 (as claimed): when the adapter call of one expectation of the matched
\* schema raised, the action's transition still carries the results of the
\* schema's other expectations (here the ui and the api expectation).
ExpectationsIndependent ==
    (pc = "actions" /\ idx >= 1 /\ HasEvent(alog, "verify:fail"))
        => /\ TransitionHasResult(actions[idx], "ui")
           /\ TransitionHasResult(actions[idx], "api")

\* C12 (as claimed): when an adapter's pre-action snapshot or its verify
\* raised during an action, the action's transition carries a verification
\* result with passed = FALSE.
AdapterFailureDowngraded ==
    (pc = "actions" /\ idx >= 1 /\ Registered("supabase")
       /\ (HasEvent(alog, "verify:fail") \/ HasEvent(alog, "pre:fail")))
        => /\ state \in DOMAIN graph.states
           /\ \E i \in 1..Len(graph.states[state].transitions) :
                LET tr == graph.states[state].transitions[i]
                IN  /\ tr.action = actions[idx]
                    /\ \E k \in 1..Len(tr.verifications) :
                          ~ tr.verifications[k].passed

\* C13 (as claimed): once the Task in which a validator raised on a newly
\* visited state is over, the state is a node of the graph and its candidate
\* actions were discovered.
ValidatorFailureTolerated ==
    (pc = "loop" /\ HasEvent(tlog, "validate:fail"))
        => /\ state \in DOMAIN graph.states
           /\ HasEvent(tlog, "discover")

\* How many events of the log are in the set.
Count(log, events) == Cardinality({ i \in 1..Len(log) : log[i] \in events })

\* C14: once an adapter's connect has failed, no second connect is made, no
\* start Task is pushed and no Task is dequeued or explored, explore() does
\* not complete, and it rejects only after the 'error' event.
ConnectFailureFatal ==
    HasEvent(xlog, "connect:fail")
        => /\ pc \in {"error", "cleanup", "rejected"}
           /\ Count(xlog, {"connect", "connect:fail"}) = 1
           /\ queue = <<>> /\ task = NoTask /\ tlog = <<>>
           /\ visited = {} /\ DOMAIN graph.states = {}
           /\ ~HasEvent(xlog, "complete")
           /\ pc \in {"cleanup", "rejected"} => HasEvent(xlog, "error")

ConnectFailureFatalWitness ==
    /\ pc = "rejected"
    /\ HasEvent(xlog, "connect:fail")
    /\ LastEvent(xlog) = "cleanup"

\* C15: cleanup has run exactly once when explore() has resolved or
\* rejected, and not at all before; when it has run no Task is being
\* explored and the page of the last Task was closed (or its close raised).
CleanupOnce ==
    /\ Count(xlog, {"cleanup"}) = (IF pc \in {"done", "rejected"} THEN 1 ELSE 0)
    /\ HasEvent(xlog, "cleanup") =>
         /\ pc \in {"done", "rejected"}
         /\ ~pageOpen \/ LastEvent(tlog) = "close:fail"
         /\ LastEvent(xlog) = "cleanup"

CleanupOnceWitness ==
    /\ pc = "done"
    /\ loopExit = "cap"
    /\ queue # <<>>
    /\ Count(xlog, {"cleanup"}) = 1

\* C16: no step taken inside a Task whose page is open (viewport set-up,
\* navigation, capture, validation, discovery, the steps of an action) ends
\* the loop or makes explore() reject: the Task goes on or its page is
\* closed, and closing it gives control back to the loop unless the close
\* itself raises.
TaskFailureNotFatal ==
    [][ /\ (pc \in TaskPcs)
          => ( /\ pc' \in TaskPcs \cup {"close"}
               /\ loopExit' = loopExit
               /\ xlog' = xlog )
        /\ (pc = "close")
          => ( /\ pc' = "loop" \/ (pc' = "error" /\ LastEvent(tlog') = "close:fail")
               /\ loopExit' = loopExit
               /\ xlog' = xlog ) ]_vars

\* explore() has resolved although the last Task was abandoned after a
\* failure, and the result has the nodes found before.
TaskFailureNotFatalWitness ==
    /\ pc = "done"
    /\ LastEvent(xlog) = "cleanup"
    /\ LastEvent(tlog) \in {"goto:fail", "capture:fail", "validate:fail", "discover:fail"}
    /\ DOMAIN graph.states # {}

\* The page after the first n steps of a path, each taken from the page the
\* one before it led to.
RECURSIVE RunPrefix(_, _, _)
RunPrefix(p, path, n) ==
    IF n = 0 THEN p
    ELSE target.delta[RunPrefix(p, path, n - 1)][path[n]]

\* Each of the first n steps found its element.
AllPresent(p, path, n) ==
    \A k \in 1..n : Present(target, RunPrefix(p, path, k - 1), path[k])

\* The replay of the path from p executed exactly its first n steps and is
\* at page q: the steps found their elements, and if steps are left over,
\* the next one failed (its element is not there, or the call failed).
StoppedAt(p, path, n, q, callFailed) ==
    /\ AllPresent(p, path, n)
    /\ q = RunPrefix(p, path, n)
    /\ n < Len(path) => (callFailed \/ ~Present(target, q, path[n + 1]))

\* C17: the navigation of a Task that goes on to the capture leaves the page
\* where the replay executed a prefix of the path and stopped at the first
\* failing step; a replay failure is logged as a truncation and is followed
\* by the capture, not by the end of the Task.
ReplayStopsAtFirstFailure ==
    [][ /\ (pc = "goto" /\ pc' = "capture")
            => \E n \in 0..Len(task.path) :
                 StoppedAt(target.landing[task.url], task.path, n, page',
                           faults' < faults)
        /\ (pc = "goto" /\ LastEvent(tlog') = "goto:truncated")
            => pc' = "capture"
      ]_vars

\* A replay stopped at a step whose element was missing although a later
\* step's element was on the page; the Task went on with the capture.
ReplayStopsAtFirstFailureWitness ==
    /\ pc = "capture"
    /\ LastEvent(tlog) = "goto"
    /\ \E n \in 0..(Len(task.path) - 2) :
         /\ StoppedAt(target.landing[task.url], task.path, n, page, FALSE)
         /\ Present(target, page, task.path[n + 2])

\* C18: the schema found for a candidate action is the first one, in the
\* order of the configuration, all of whose given matcher fields hold of the
\* action and of the page's URL; none is found exactly when no schema
\* matches (in particular when none is configured).
FirstMatchWins ==
    [][ pc = "pre"
          => ( /\ schema' \in 0..Len(config.actionSchemas)
               /\ schema' = 0 =>
                    \A j \in 1..Len(config.actionSchemas) :
                       ~SchemaMatches(config.actionSchemas[j], CurAction, page)
               /\ schema' # 0 =>
                    /\ SchemaMatches(config.actionSchemas[schema'], CurAction, page)
                    /\ \A j \in 1..(schema' - 1) :
                          ~SchemaMatches(config.actionSchemas[j], CurAction, page) )
      ]_vars

\* An action matched by two schemas got the earlier one: its label matches
\* the text pattern only when the case is ignored, and the schema before
\* fails on the role and the URL context.
FirstMatchWinsWitness ==
    /\ pc \in {"setup", "exec"}
    /\ schema = 2
    /\ \E j \in 3..Len(config.actionSchemas) :
          SchemaMatches(config.actionSchemas[j], CurAction, page)
    /\ ~Includes(ActionLabel(CurAction), config.actionSchemas[2].match.text)

\* The place of an event in the order of the steps of exploreAction.
Rank(e) ==
    CASE e = "start" -> 0
      [] e = "schema" -> 1
      [] e \in {"pre", "pre:fail"} -> 2
      [] e \in {"setup:ok", "setup:swallowed", "setup:fail"} -> 3
      [] e \in {"exec", "exec:fail"} -> 4
      [] e \in {"post", "post:fail"} -> 5
      [] e \in {"verify", "verify:fail"} -> 6
      [] e = "record" -> 7
      [] e = "enqueue" -> 8
      [] e \in {"reset", "reset:fail"} -> 9
      [] OTHER -> 10

\* Positions of the control flow inside exploreAction.
ActionPcs == {"pre", "setup", "exec", "post", "verify", "record", "reset", "recover"}

\* C19: the steps taken for a candidate action follow the order schema
\* match, pre-snapshot, setup steps, action, post-state capture,
\* verification, recording, enqueue, reset; no step but a setup step is
\* taken twice and none is taken unless the steps it depends on have
\* completed: the action only after the pre-snapshot and all setup steps,
\* the recording only after the captures and the verification.  The graph
\* has the action's transition exactly when the recording step was taken.
StepsInOrder ==
    /\ \A i, j \in 1..Len(alog) :
          i < j => \/ Rank(alog[i]) < Rank(alog[j])
                   \/ Rank(alog[i]) = 3 /\ Rank(alog[j]) = 3
                   \/ Rank(alog[j]) = 10
    /\ \A i \in 1..Len(alog) :
          Rank(alog[i]) = 3 => HasEvent(SubSeq(alog, 1, i - 1), "pre")
    /\ HasEvent(alog, "pre") \/ HasEvent(alog, "pre:fail") => HasEvent(alog, "schema")
    /\ HasEvent(alog, "exec") \/ HasEvent(alog, "exec:fail") =>
          /\ HasEvent(alog, "pre")
          /\ (schema # 0 /\ config.actionSchemas[schema].hasSetup) =>
                Count(alog, {"setup:ok", "setup:swallowed"})
                    = Len(config.actionSchemas[schema].setup)
    /\ HasEvent(alog, "post") \/ HasEvent(alog, "post:fail") => HasEvent(alog, "exec")
    /\ HasEvent(alog, "verify") \/ HasEvent(alog, "verify:fail") => HasEvent(alog, "post")
    /\ HasEvent(alog, "record") => HasEvent(alog, "post") /\ HasEvent(alog, "verify")
    /\ HasEvent(alog, "enqueue") => HasEvent(alog, "record")
    /\ HasEvent(alog, "reset") \/ HasEvent(alog, "reset:fail") => HasEvent(alog, "record")
    /\ pc \in ActionPcs => (HasTransitionFor(CurAction) <=> HasEvent(alog, "record"))

\* An action with a matched schema and setup steps went through every step,
\* the enqueue included.
StepsInOrderWitness ==
    /\ pc = "actions"
    /\ idx >= 1
    /\ alog = << "start", "schema", "pre", "setup:ok", "setup:ok", "exec", "post",
                 "verify", "record", "enqueue", "reset" >>

\* C20: the recording step of a successfully executed action appends one
\* Task to the frontier exactly when the post-state's id is not visited,
\* with the page's current URL, the parent's path followed by the action,
\* the parent's depth plus one and the parent's viewport.  The start Tasks
\* have depth 0 and an empty path, and every Task of the frontier has a
\* path as long as its depth.
EnqueueOnNewState ==
    [][ /\ (pc = "record" /\ toState \notin visited)
            => ( /\ Len(queue') = Len(queue) + 1
                 /\ SubSeq(queue', 1, Len(queue)) = queue
                 /\ queue'[Len(queue')].url = target.url[page]
                 /\ queue'[Len(queue')].path = task.path \o << actions[idx] >>
                 /\ queue'[Len(queue')].depth = task.depth + 1
                 /\ queue'[Len(queue')].viewport = task.viewport )
        /\ (pc = "record" /\ toState \in visited) => queue' = queue
        /\ (pc = "start")
            => ( /\ Len(queue') = Len(config.viewports)
                 /\ \A i \in 1..Len(queue') :
                       /\ queue'[i].depth = 0
                       /\ queue'[i].path = <<>>
                       /\ queue'[i].url = target.start
                       /\ queue'[i].viewport = config.viewports[i] )
        /\ \A i \in 1..Len(queue') : Len(queue'[i].path) = queue'[i].depth
        /\ task' # NoTask => Len(task'.path) = task'.depth
      ]_vars

\* A Task explored at depth 1 found a new state and enqueued it at depth 2.
EnqueueOnNewStateWitness ==
    /\ pc = "reset"
    /\ HasEvent(alog, "enqueue")
    /\ task.depth = 1
    /\ queue # <<>>
    /\ queue[Len(queue)].depth = 2
    /\ queue[Len(queue)].path = Append(task.path, actions[idx])

\* The link checks in flight: checkLink calls whose worker has not resumed
\* with the result.
InFlight == Cardinality({ w \in DOMAIN workers : workers[w].st \in {"busy", "retry", "settled"} })

\* C21: at no moment are more than min(5, number of links to check) link
\* checks in flight.
BoundedInFlight ==
    /\ InFlight <= 5
    /\ InFlight <= Len(links)

\* Of more than five links, five are being checked after some check has
\* completed and its worker has taken the link that was waiting.
BoundedInFlightWitness ==
    /\ lpc = "running"
    /\ InFlight = 5
    /\ Len(links) > 5
    /\ results # <<>>

\* How often a link is found among the results, the checks in flight and
\* the queue.
Holders(link) ==
    Cardinality({ k \in 1..Len(results) : results[k].link = link })
    + Cardinality({ w \in DOMAIN workers :
                      workers[w].st \in {"busy", "retry", "settled"} /\ workers[w].link = link })
    + Cardinality({ k \in 1..Len(lqueue) : lqueue[k] = link })

\* C22: while the workers run, every input link is in exactly one place:
\* waiting in the queue, being checked by one worker, or in the results
\* once.  When checkLinksWithConcurrency has returned, the queue is empty,
\* every worker has ended and the results hold exactly one result per input
\* link.
OneResultPerLink ==
    /\ lpc = "running" => \A i \in 1..Len(links) : Holders(links[i]) = 1
    /\ (lpc = "done" /\ enabled) =>
          /\ lqueue = <<>>
          /\ \A w \in DOMAIN workers : workers[w].st = "done"
          /\ Len(results) = Len(links)
          /\ \A i \in 1..Len(links) :
                Cardinality({ k \in 1..Len(results) : results[k].link = links[i] }) = 1

\* More links than workers were checked, and the checks did not complete in
\* the order of the list.
OneResultPerLinkWitness ==
    /\ lpc = "done"
    /\ Len(links) > 5
    /\ Len(results) = Len(links)
    /\ \E k \in 1..Len(results) : results[k].link # links[k]

\* What the request that decided a link's check came to.
FinalResponse(link) ==
    LET head == Fetch(link.href, "HEAD")
    IN  IF head.name = "" /\ head.status = 405 THEN Fetch(link.href, "GET") ELSE head

\* The rule and severity C23 gives for a checked link ("none": no Issue).
ClaimedIssue(link) ==
    LET f == FinalResponse(link)
    IN  IF f.name \in {"AbortError", "TimeoutError"} THEN << "link-timeout", "moderate" >>
        ELSE IF f.name # "" THEN << "link-connection-error", "serious" >>
        ELSE IF f.status >= 200 /\ f.status <= 399 THEN << "none", "none" >>
        ELSE IF f.status = 404 THEN << "broken-link-404", "serious" >>
        ELSE IF f.status >= 500 THEN << "broken-link-server-error", "critical" >>
        ELSE << "broken-link-client-error", "moderate" >>

\* C23 (as claimed): the issues validate() returns are, link by link, the
\* ones the claim's table gives for what the link's request came to, and
\* there are as many of them as links without a successful outcome.
IssuePerOutcome ==
    (lpc = "done" /\ enabled) =>
        /\ \A k \in 1..Len(results) :
              LET issue == resultToIssue(results[k])
              IN  << issue.rule, issue.severity >> = ClaimedIssue(results[k].link)
        /\ Len(linkIssues)
             = Cardinality({ i \in 1..Len(links) : ClaimedIssue(links[i])[1] # "none" })

\* C24: a page is open while a Task is being processed, and at no other
\* time unless its close raised, which ends the loop.  A page is opened
\* only by the loop when none is open, and the control flow leaves a Task,
\* on any path, only through the closing of its page.
OnePageAtATime ==
    [][ /\ pc \in TaskPcs \cup {"close"} => pageOpen
        /\ pageOpen => (pc \in TaskPcs \cup {"close"} \/ LastEvent(tlog) = "close:fail")
        /\ (~pageOpen /\ pageOpen') => pc = "loop"
        /\ pc = "loop" => ~pageOpen
        /\ (pc \in TaskPcs \cup {"close"} /\ pc' \notin TaskPcs \cup {"close"})
              => /\ pc = "close"
                 /\ (~pageOpen' /\ pc' = "loop")
                      \/ (pc' = "error" /\ LastEvent(tlog') = "close:fail")
      ]_vars

\* A Task was discarded as a duplicate, its page is closed, and the loop is
\* about to open the page of the next Task.
OnePageAtATimeWitness ==
    /\ pc = "loop"
    /\ ~pageOpen
    /\ LastEvent(tlog) = "dedup"
    /\ queue # <<>>
    /\ ~TooDeep(Head(queue))
    /\ ~CapReached

\* The console errors reported as issues of a node.
ReportedOn(id) ==
    { graph.states[id].issues[i].error :
        i \in { k \in 1..Len(graph.states[id].issues) :
                   graph.states[id].issues[k].type = "console" } }

\* C25 (as claimed): a validation pass that completes leaves the
\* console-error buffer empty, and no console error is among the issues of
\* two states.
ConsoleDrainedPerPass ==
    [][ /\ (pc = "validate" /\ pc' = "discover") => consoleErrors' = <<>>
        /\ \A a, b \in DOMAIN graph.states :
              a # b => ReportedOn(a) \cap ReportedOn(b) = {}
      ]_vars

\* C26: every step keeps the nodes the graph has, with their issues, and
\* keeps each node's transitions as the beginning of its new list of
\* transitions; a node is inserted only for an id the graph does not have.
GraphOnlyGrows ==
    [][ /\ \A id \in DOMAIN graph.states :
              /\ id \in DOMAIN graph'.states
              /\ graph'.states[id].issues = graph.states[id].issues
              /\ Len(graph'.states[id].transitions) >= Len(graph.states[id].transitions)
              /\ SubSeq(graph'.states[id].transitions, 1,
                        Len(graph.states[id].transitions))
                   = graph.states[id].transitions
        /\ (pc = "validate" /\ pc' = "discover") => state \notin DOMAIN graph.states
        /\ (DOMAIN graph'.states # DOMAIN graph.states) => pc = "validate"
      ]_vars

\* The graph has several nodes, one of them with two transitions.
GraphOnlyGrowsWitness ==
    /\ Cardinality(DOMAIN graph.states) >= 2
    /\ \E id \in DOMAIN graph.states : Len(graph.states[id].transitions) >= 2

\* C27 (as claimed): once the visited set has reached maxStates, no step
\* makes the frontier longer.
NoEnqueueAfterCap ==
    [][ Cardinality(visited) >= EffMaxStates => Len(queue') <= Len(queue) ]_vars

\* The schema's custom predicate, if given, returns true for the action.
CustomAccepts(sc, action) ==
    sc.match.custom.given => action \in sc.match.custom.accepts

\* C28 (as claimed): the schema found for an action is one whose custom
\* predicate, if it has one, accepts the action.
CustomPredicateHonoured ==
    [][ (pc = "pre" /\ schema' # 0)
            => CustomAccepts(config.actionSchemas[schema'], CurAction) ]_vars

\* C29 (as claimed): the verification of a matched schema yields at least
\* one result for each of the schema's expectations.
EveryExpectationReports ==
    [][ (pc = "verify" /\ pc' = "record" /\ schema # 0)
            => Len(verifications') >= Len(CurSchema.expects) ]_vars

\* The transitions of the graph, as (node, position) pairs.
AllTransitions ==
    UNION { { << id, i >> : i \in 1..Len(graph.states[id].transitions) } :
            id \in DOMAIN graph.states }

\* The issues of the graph, as (node, position) pairs.
AllIssues ==
    UNION { { << id, i >> : i \in 1..Len(graph.states[id].issues) } :
            id \in DOMAIN graph.states }

\* The verification results of the graph, as (node, transition, position)
\* triples.
AllResults ==
    UNION { { << t[1], t[2], k >> :
                k \in 1..Len(graph.states[t[1]].transitions[t[2]].verifications) } :
            t \in AllTransitions }

\* C30: in the result explore() resolves with, statesExplored is the number
\* of nodes, actionsPerformed the number of recorded transitions,
\* issuesFound the length of the aggregate issue list, which has the issues
\* of all nodes, and verificationsPassed + verificationsFailed the length of
\* the aggregate verification list, which has the results of all
\* transitions.
SummaryMatchesGraph ==
    result # Unresolved =>
        /\ result.summary.statesExplored = Cardinality(DOMAIN graph.states)
        /\ result.summary.actionsPerformed = Cardinality(AllTransitions)
        /\ result.summary.issuesFound = Len(result.issues)
        /\ Len(result.issues) = Cardinality(AllIssues)
        /\ result.summary.verificationsPassed + result.summary.verificationsFailed
             = Len(result.verifications)
        /\ Len(result.verifications) = Cardinality(AllResults)

\* explore() resolved with a result that counts several states, issues of
\* the responsive validator and of the console, and passed as well as
\* failed verifications.
SummaryMatchesGraphWitness ==
    /\ pc = "done"
    /\ result.summary.statesExplored >= 2
    /\ \E i, j \in 1..Len(result.issues) :
          result.issues[i].type = "responsive" /\ result.issues[j].type = "console"
    /\ result.summary.verificationsPassed >= 1
    /\ result.summary.verificationsFailed >= 1

(***************************************************************************)
(* Scheduling order, per-state action order, event pairing, caches and     *)
(* clean-up.                                                               *)
(***************************************************************************)

\* The frontier holds its Tasks in non-decreasing depth.
QueueSorted(q) ==
    \A i, j \in DOMAIN q : i <= j => q[i].depth <= q[j].depth

\* C31: the frontier is first-in first-out: a step that changes it either
\* removes its head, which becomes the Task dequeued, or adds Tasks at its
\* end; the Tasks waiting are in non-decreasing depth and none is shallower
\* than the Task last dequeued, so the depths of successively dequeued
\* Tasks never decrease (breadth-first).
FifoBreadthFirst ==
    [][ /\ (queue' # queue) =>
            ( \/ /\ queue # <<>>
                 /\ queue' = Tail(queue)
                 /\ task' = Head(queue)
              \/ /\ Len(queue') > Len(queue)
                 /\ SubSeq(queue', 1, Len(queue)) = queue )
        /\ (task' # task) => (queue # <<>> /\ task' = Head(queue))
        /\ task'.depth >= task.depth
        /\ QueueSorted(queue')
        /\ \A i \in DOMAIN queue' : queue'[i].depth >= task'.depth ]_vars

\* A Task of depth 1 is being processed while Tasks of depth 1 and of
\* depth 2 are waiting.
FifoBreadthFirstWitness ==
    /\ pc = "actions"
    /\ task.depth = 1
    /\ Len(queue) >= 2
    /\ queue[1].depth = 1
    /\ queue[Len(queue)].depth = 2

\* The prioritized candidate actions of the state a Task captured.
Prioritized(id) == target.acts[id[1]]

\* The actions of a node's transitions, in the order they were recorded.
Attempted(id) ==
    [ i \in 1..Len(graph.states[id].transitions) |->
        graph.states[id].transitions[i].action ]

\* seq is an order-preserving selection of the elements of full.
RECURSIVE IsSubsequence(_, _)
IsSubsequence(seq, full) ==
    IF seq = <<>> THEN TRUE
    ELSE IF full = <<>> THEN FALSE
    ELSE IF Head(seq) = Head(full) THEN IsSubsequence(Tail(seq), Tail(full))
    ELSE IsSubsequence(seq, Tail(full))

\* C32: the actions attempted from a state are the first ones of the
\* prioritized order, at most maxActionsPerState of them, the cap removing
\* only the tail of the order; the actions are attempted in that order,
\* every node has at most maxActionsPerState transitions, and the action
\* placed last is the last attempted or is dropped by the cap.
PerStateOrderAndCap ==
    /\ pc \in {"actions"} \cup ActionPcs =>
         LET prio == Prioritized(state)
         IN  /\ Len(actions) <= config.maxActionsPerState
             /\ Len(actions) <= Len(prio)
             /\ actions = SubSeq(prio, 1, Len(actions))
             /\ Len(actions) < Len(prio) => Len(actions) = config.maxActionsPerState
             /\ idx <= Len(actions)
             /\ IsSubsequence(Attempted(state), SubSeq(actions, 1, idx))
    /\ \A id \in DOMAIN graph.states :
         /\ Len(graph.states[id].transitions) <= config.maxActionsPerState
         /\ IsSubsequence(Attempted(id), Prioritized(id))

\* The positions of a list of records whose field `type` or `kind` is "api".
ApiExpectations(expects) == { i \in 1..Len(expects) : expects[i].kind = "api" }
ApiResults(vs) == { k \in 1..Len(vs) : vs[k].type = "api" }

\* C33: when the expectations of the matched schema have been evaluated,
\* the results hold exactly one result of type api for each API
\* expectation, and each of them has passed = TRUE, whatever page the
\* action led to and whatever the other expectations reported; the results
\* are recorded unchanged on the transition.
ApiAlwaysPasses ==
    [][ /\ (pc = "verify" /\ pc' = "record" /\ schema # 0) =>
             ( /\ Cardinality(ApiResults(verifications'))
                    = Cardinality(ApiExpectations(CurSchema.expects))
               /\ \A k \in ApiResults(verifications') : verifications'[k].passed )
        /\ (pc = "record" /\ state \in DOMAIN graph.states) =>
             LET trs == graph'.states[state].transitions
             IN  /\ trs[Len(trs)].verifications = verifications
                 /\ \A k \in ApiResults(verifications) : verifications[k].passed
      ]_vars

\* The results of a matched schema are about to be recorded: the API
\* expectation passed while another expectation of the schema failed.
ApiAlwaysPassesWitness ==
    /\ pc = "record"
    /\ schema # 0
    /\ ApiExpectations(CurSchema.expects) # {}
    /\ \E k \in ApiResults(verifications) : verifications[k].passed
    /\ \E k \in 1..Len(verifications) : ~verifications[k].passed

\* The events emitted for the current candidate action: 'action:complete'
\* is emitted together with the recording of the transition,
\* 'action:error' by the catch block.
CompleteEmitted == Count(alog, {"record"})
ErrorEmitted == Count(alog, {"error"})

\* C34 (as claimed): between an 'action:start' and the next one exactly one
\* of 'action:complete' and 'action:error' is emitted for the action; an
\* action whose transition was recorded and reported complete gets no
\* 'action:error'.
OneOutcomePerAction ==
    /\ pc \in {"actions"} \cup ActionPcs /\ idx >= 1
         => /\ Count(alog, {"start"}) = 1
            /\ CompleteEmitted + ErrorEmitted <= 1
    /\ pc = "actions" /\ idx >= 1
         => CompleteEmitted + ErrorEmitted = 1

\* C35 (as claimed): since the last clearCache() call, or since the
\* validator was constructed, no URL was requested more than once, whatever
\* the method of the request.
OneRequestPerUrl == \A h \in DOMAIN sent : sent[h] <= 1

\* C36 (as claimed): between two Tasks the visited ids are the ids of the
\* graph's nodes, and the statesExplored that explore() reports is the
\* number of visited states.
VisitedAreNodes ==
    /\ pc \in {"loop", "finish", "cleanup", "done"} => DOMAIN graph.states = visited
    /\ result # Unresolved => result.summary.statesExplored = Cardinality(visited)

\* The ids listed in graph.startStates.
StartStateIds == { graph.startStates[i] : i \in DOMAIN graph.startStates }

\* C37 (as claimed): the node a depth-0 Task has added to the graph is
\* listed in graph.startStates, for every start URL and viewport.
StartStatesComplete ==
    (pc \in TaskPcs \cup {"close"} /\ task.depth = 0 /\ state \in DOMAIN graph.states
         /\ HasEvent(tlog, "node"))
        => state \in StartStateIds

\* The Task's viewport set-up or initial navigation, or its state capture,
\* has failed.
StartFailures == {"goto:fail", "capture:fail"}

\* C38: a Task whose viewport set-up, initial navigation or state capture
\* fails changes neither the visited set nor the graph nor the frontier:
\* taking the Task from the frontier only removes it, the steps up to the
\* failure leave the three unchanged, and after the failure the Task does
\* nothing but close its page, which leaves them unchanged as well.
FailedStartLeavesNoTrace ==
    [][ /\ (pc = "loop" /\ pc' \in {"goto", "error"}) =>
             (visited' = visited /\ graph' = graph /\ queue' = Tail(queue))
        /\ (pc = "goto") => UNCHANGED << visited, graph, queue >>
        /\ (pc \in {"goto", "capture"} /\ LastEvent(tlog') \in StartFailures) =>
             (pc' = "close" /\ UNCHANGED << visited, graph, queue >>)
        /\ (pc = "close" /\ LastEvent(tlog) \in StartFailures) =>
             (pc' \in {"loop", "error"} /\ UNCHANGED << visited, graph, queue >>)
      ]_vars

\* A Task deeper in the crawl has failed to capture its state and is about
\* to close its page, with states visited and Tasks waiting.
FailedStartLeavesNoTraceWitness ==
    /\ pc = "close"
    /\ LastEvent(tlog) = "capture:fail"
    /\ task.depth > 0
    /\ visited # {}
    /\ queue # <<>>
    /\ state = NoId

\* The Task being processed is the one whose state brought the visited
\* count to the configured maxStates.
CapTask ==
    /\ pc \in TaskPcs
    /\ HasEvent(tlog, "visited")
    /\ config.maxStates > 0
    /\ Cardinality(visited) = config.maxStates

\* C39: the Task during which the visited count reaches maxStates goes on
\* as any other Task: its candidate actions are the capped prioritized
\* list, each of them is attempted in turn, the transition of each executed
\* action is recorded, and the Task ends only when all were attempted.  At
\* the next dequeue the Task taken from the frontier is not processed and
\* the loop is left (a Task beyond the depth limit is dropped first), and
\* the Tasks left in the frontier stay there unprocessed.
CapTaskExploredInFull ==
    [][ /\ (CapTask /\ pc = "discover" /\ pc' = "actions") =>
             actions' = Slice(target.acts[page], EffMaxActions)
        /\ (CapTask /\ pc = "actions" /\ idx < Len(actions)) =>
             (pc' = "pre" /\ idx' = idx + 1 /\ actions' = actions)
        /\ (CapTask /\ pc = "actions" /\ pc' = "close") =>
             /\ idx = Len(actions)
             /\ Count(tlog, {"action:ok", "action:error"}) = Len(actions)
        /\ (CapTask /\ pc = "record") =>
             /\ Len(graph'.states[state].transitions)
                    = Len(graph.states[state].transitions) + 1
             /\ graph'.states[state].transitions[Len(graph'.states[state].transitions)].action
                    = actions[idx]
        /\ (pc = "loop" /\ config.maxStates > 0
                /\ Cardinality(visited) = config.maxStates /\ queue # <<>>) =>
             /\ pc' = "finish" \/ (pc' = "loop" /\ TooDeep(Head(queue)))
             /\ queue' = Tail(queue)
             /\ UNCHANGED << visited, graph >>
        /\ (loopExit' = "cap") => UNCHANGED << visited, graph >>
        /\ (loopExit = "cap") => UNCHANGED << visited, graph, queue >>
      ]_vars

\* The Task that filled the visited set has attempted both of its
\* candidate actions and recorded their transitions, and Tasks are waiting.
CapTaskExploredInFullWitness ==
    /\ CapTask
    /\ pc = "actions"
    /\ idx = 2
    /\ Len(actions) = 2
    /\ Len(graph.states[state].transitions) = 2
    /\ queue # <<>>

\* C40 (as claimed): when explore() has resolved or rejected, the browser
\* context and the browser are closed and this.context and this.browser
\* are null.
HandlesReleased ==
    pc \in {"done", "rejected"} => (browser = "null" /\ context = "null")

====
